---- MODULE Spec2Model ----
(***************************************************************************)
(* Signal-based failure classification of the Marriott directory scraper:  *)
(* classifyError, its resource filter isNonCriticalResource, the           *)
(* suggestion debouncer shouldLogSuggestion and the backoff calculator     *)
(* calculateBackoffHint, the early detector detectChallengeEarly and the   *)
(* sanitizer sanitizeData with truncateHar (src/src/main.js, lines         *)
(* 462-851); and, around it, createTimeline (main.js 856-868),             *)
(* getCrawlerConfig (config), extractMarsha, extractSlug and               *)
(* resolveAndExtract (urlHelpers), and the request handler's loop that     *)
(* cleans, validates and pushes the scraped hotels (main.js 74-151).       *)
(*                                                                         *)
(* Text is a sequence of one-character strings, so that toLowerCase() and  *)
(* includes() are computed on the characters.  A value that may be null,   *)
(* a string or some other object is a record [kind, chars].                *)
(***************************************************************************)
EXTENDS Integers, Sequences, FiniteSets, TLC

VARIABLES now, suggestionDebounce, bundle, result, rnd, log, loads, detect, util

vars == <<now, suggestionDebounce, bundle, result, rnd, log, loads, detect, util>>

\* the state of the classifier and of its callers
classifierVars == <<now, suggestionDebounce, bundle, result, rnd, log, loads>>

----------------------------------------------------------------------------
(* Bounds of the model *)

\* Math.random() is k / RandSteps for k in 0 .. RandSteps - 1
RandSteps == 4
\* the clock advances at most MaxTicks times
MaxTicks == 3
\* classifyError is called at most MaxCalls times in one behaviour
MaxCalls == 3
\* at most MaxNetErrors entries in networkErrors
MaxNetErrors == 2
\* Date.now() when the process starts (any positive number of ms)
StartMs == 1
\* page loads the crawler handles concurrently
MaxLoads == 2

----------------------------------------------------------------------------
(* JavaScript strings *)

\* the letters toLowerCase() changes (the model uses ASCII text only)
LowerCaseOf ==
  ("A" :> "a") @@ ("B" :> "b") @@ ("C" :> "c") @@ ("D" :> "d") @@ ("E" :> "e") @@ ("F" :> "f") @@
  ("G" :> "g") @@ ("H" :> "h") @@ ("I" :> "i") @@ ("J" :> "j") @@ ("K" :> "k") @@ ("L" :> "l") @@
  ("M" :> "m") @@ ("N" :> "n") @@ ("O" :> "o") @@ ("P" :> "p") @@ ("Q" :> "q") @@ ("R" :> "r") @@
  ("S" :> "s") @@ ("T" :> "t") @@ ("U" :> "u") @@ ("V" :> "v") @@ ("W" :> "w") @@ ("X" :> "x") @@
  ("Y" :> "y") @@ ("Z" :> "z")

LowerOfChar(c) == IF c \in DOMAIN LowerCaseOf THEN LowerCaseOf[c] ELSE c

\* String.prototype.toLowerCase
ToLowerCase(s) == [i \in 1..Len(s) |-> LowerOfChar(s[i])]

\* String.prototype.includes: sub occurs in s as a contiguous run
Includes(s, sub) ==
  \E i \in 0..(Len(s) - Len(sub)) :
    \A j \in 1..Len(sub) : s[i + j] = sub[j]

\* a JavaScript value that is null/undefined, a string, or another object
NullValue == [kind |-> "null", chars |-> <<>>]

ObjectValue == [kind |-> "object", chars |-> <<>>]

Str(chars) == [kind |-> "text", chars |-> chars]

\* requestId = null, the default of the parameter (line 620)
NoRequestId == "null"

IsString(v) == v.kind = "text"

\* ToBoolean: null, undefined and "" are falsy; other strings and objects truthy
Truthy(v) == v.kind = "object" \/ (v.kind = "text" /\ v.chars # <<>>)

----------------------------------------------------------------------------
(* Tables of the classifier *)

ERROR_TYPES ==
  [ BLOCKED |-> "blocked",
    RATE_LIMITED |-> "rate_limited",
    SLOW_LOAD |-> "slow_load",
    NETWORK_ERROR |-> "network_error",
    CHALLENGE_PAGE |-> "challenge_page",
    UNKNOWN_TIMEOUT |-> "unknown_timeout",
    VALIDATION_ERROR |-> "validation_error",
    EXTRACTION_ERROR |-> "extraction_error" ]

CHALLENGE_INDICATORS ==
  << (* CLOUDFLARE *)
     << <<"C", "h", "e", "c", "k", "i", "n", "g", " ", "y", "o", "u", "r", " ", "b", "r", "o", "w", "s", "e", "r">>,
        <<"C", "l", "o", "u", "d", "f", "l", "a", "r", "e">>,
        <<"c", "f", "-", "r", "a", "y">> >>,
     (* AKAMAI *)
     << <<"A", "k", "a", "m", "a", "i">>,
        <<"c", "h", "a", "l", "l", "e", "n", "g", "e">>,
        <<"a", "k", "a", "m", "a", "i", "-", "g", "t", "m">> >>,
     (* CAPTCHA *)
     << <<"c", "a", "p", "t", "c", "h", "a">>,
        <<"C", "A", "P", "T", "C", "H", "A">>,
        <<"r", "e", "c", "a", "p", "t", "c", "h", "a">>,
        <<"h", "c", "a", "p", "t", "c", "h", "a">> >>,
     (* BOT_DETECTION *)
     << <<"b", "o", "t">>,
        <<"a", "u", "t", "o", "m", "a", "t", "i", "o", "n">>,
        <<"s", "u", "s", "p", "i", "c", "i", "o", "u", "s">>,
        <<"s", "e", "c", "u", "r", "i", "t", "y", " ", "c", "h", "e", "c", "k">> >> >>

BLOCKING_STATUS_CODES ==
  (403 :> "forbidden") @@ (429 :> "rate_limited") @@
  (503 :> "service_unavailable") @@ (451 :> "unavailable_for_legal_reasons")

NON_CRITICAL_RESOURCES ==
  << (* IMAGES *)
     << <<".", "j", "p", "g">>,
        <<".", "j", "p", "e", "g">>,
        <<".", "p", "n", "g">>,
        <<".", "g", "i", "f">>,
        <<".", "w", "e", "b", "p">>,
        <<".", "s", "v", "g">>,
        <<".", "i", "c", "o">> >>,
     (* FONTS *)
     << <<".", "w", "o", "f", "f">>,
        <<".", "w", "o", "f", "f", "2">>,
        <<".", "t", "t", "f">>,
        <<".", "e", "o", "t">> >>,
     (* ANALYTICS *)
     << <<"a", "n", "a", "l", "y", "t", "i", "c", "s">>,
        <<"t", "a", "g", "m", "a", "n", "a", "g", "e", "r">>,
        <<"g", "t", "m">>,
        <<"g", "o", "o", "g", "l", "e", "t", "a", "g", "m", "a", "n", "a", "g", "e", "r">> >>,
     (* TRACKING *)
     << <<"t", "r", "a", "c", "k", "i", "n", "g">>,
        <<"p", "i", "x", "e", "l">>,
        <<"b", "e", "a", "c", "o", "n">> >>,
     (* CONSENT *)
     << <<"c", "o", "n", "s", "e", "n", "t">>,
        <<"p", "r", "i", "v", "a", "c", "y">>,
        <<"g", "d", "p", "r">> >>,
     (* ADS *)
     << <<"a", "d", "s">>,
        <<"a", "d", "v", "e", "r", "t", "i", "s", "i", "n", "g">>,
        <<"d", "o", "u", "b", "l", "e", "c", "l", "i", "c", "k">> >>,
     (* SOCIAL *)
     << <<"f", "a", "c", "e", "b", "o", "o", "k">>,
        <<"t", "w", "i", "t", "t", "e", "r">>,
        <<"l", "i", "n", "k", "e", "d", "i", "n">>,
        <<"i", "n", "s", "t", "a", "g", "r", "a", "m">> >>,
     (* CDN *)
     << <<"c", "d", "n">>,
        <<"s", "t", "a", "t", "i", "c">>,
        <<"a", "s", "s", "e", "t", "s">> >> >>

\* Object.entries(table) followed by the patterns of each category, in order
Flatten(table) ==
  LET F[i \in 0..Len(table)] == IF i = 0 THEN <<>> ELSE F[i - 1] \o table[i]
  IN  F[Len(table)]

DefaultCooldownMs == 5000

\* variant: network errors are debounced with the default cooldown
NetworkCooldownMs_Default == DefaultCooldownMs

NetworkCooldownMs == 10000

BaseDelayMs == 5000

MaxDelayMs == 300000

NonCriticalPatterns == Flatten(NON_CRITICAL_RESOURCES)

ChallengeIndicators == Flatten(CHALLENGE_INDICATORS)

----------------------------------------------------------------------------
(* The texts of the model *)

PageUrl == Str(<<"m", "a", "r", "r", "i", "o", "t", "t", ".", "c", "o", "m", "/", "n", "y", "c", "m", "q">>)

\* a page url that contains the CDN pattern 'assets'
AssetsPageUrl == Str(<<"m", "a", "r", "r", "i", "o", "t", "t", ".", "c", "o", "m", "/", "a", "s", "s", "e", "t", "s">>)

ApiUrl == Str(<<"m", "a", "r", "r", "i", "o", "t", "t", ".", "c", "o", "m", "/", "a", "p", "i">>)

\* ends in .png once lower-cased
PngUrl == Str(<<"m", "a", "r", "r", "i", "o", "t", "t", ".", "c", "o", "m", "/", "l", "o", "g", "o", ".", "P", "N", "G">>)

GtmUrl == Str(<<"w", "w", "w", ".", "g", "o", "o", "g", "l", "e", "t", "a", "g", "m", "a", "n", "a", "g", "e", "r", ".", "c", "o", "m", "/", "g", "t", "m", ".", "j", "s">>)

GtmUrl2 == Str(<<"w", "w", "w", ".", "g", "o", "o", "g", "l", "e", "t", "a", "g", "m", "a", "n", "a", "g", "e", "r", ".", "c", "o", "m", "/", "n", "s", ".", "h", "t", "m", "l">>)

NoContentType == <<>>

ImageContentType == <<"i", "m", "a", "g", "e", "/", "p", "n", "g">>

PlainBody == Str(<<"H", "o", "t", "e", "l", " ", "l", "i", "s", "t">>)

RobotBody == Str(<<"I", " ", "a", "m", " ", "a", " ", "R", "O", "B", "O", "T">>)

TimeoutMessage == Str(<<"N", "a", "v", "i", "g", "a", "t", "i", "o", "n", " ", "t", "i", "m", "e", "o", "u", "t">>)

\* 'Timeout' with a capital: includes('timeout') is case-sensitive
CapitalTimeoutMessage == Str(<<"T", "i", "m", "e", "o", "u", "t", " ", "e", "x", "c", "e", "e", "d", "e", "d">>)

FailedMessage == Str(<<"n", "e", "t", ":", ":", "E", "R", "R", "_", "F", "A", "I", "L", "E", "D">>)

UrlTexts ==
  {v.chars : v \in {PageUrl, AssetsPageUrl, ApiUrl, PngUrl, GtmUrl, GtmUrl2}}

ContentTypeTexts == {NoContentType, ImageContentType}

BodyTexts ==
  {v.chars : v \in {PlainBody, RobotBody}} \cup
  {ChallengeIndicators[i] : i \in 1..Len(ChallengeIndicators)}

----------------------------------------------------------------------------
(* isNonCriticalResource(url, contentType = ''), on two strings *)

\* variant: the url is matched as it is written
isNonCriticalResource_UrlAsWritten(url, contentType) ==
  LET contentTypeLower == ToLowerCase(contentType)
  IN  \/ \E p \in 1..Len(NonCriticalPatterns) :
           Includes(url, NonCriticalPatterns[p])
      \/ Includes(contentTypeLower, <<"i", "m", "a", "g", "e", "/">>)
      \/ Includes(contentTypeLower, <<"f", "o", "n", "t", "/">>)
      \/ Includes(contentTypeLower, <<"t", "e", "x", "t", "/", "c", "s", "s">>)

isNonCriticalResource(url, contentType) ==
  LET urlLower == ToLowerCase(url)
      contentTypeLower == ToLowerCase(contentType)
  IN  \/ \E p \in 1..Len(NonCriticalPatterns) :
           Includes(urlLower, NonCriticalPatterns[p])
      \/ Includes(contentTypeLower, <<"i", "m", "a", "g", "e", "/">>)
      \/ Includes(contentTypeLower, <<"f", "o", "n", "t", "/">>)
      \/ Includes(contentTypeLower, <<"t", "e", "x", "t", "/", "c", "s", "s">>)

\* isNonCriticalResource on every url and content type of the model,
\* evaluated once
NonCriticalOf ==
  [u \in UrlTexts, ct \in ContentTypeTexts |-> isNonCriticalResource(u, ct)]

----------------------------------------------------------------------------
(* The suggestion debouncer.  suggestionDebounce is a Map from the key     *)
(* `${requestId}:${suggestion}` to the time of the last logged suggestion. *)
(* The suggestions classifyError passes contain no ':', so the key         *)
(* determines the pair and is modelled as the pair itself.                 *)

DebounceKey(requestId, suggestion) == <<requestId, suggestion>>

\* Map.prototype.get: undefined (here 0, equally falsy) for a missing key
MapGet(map, key) == IF key \in DOMAIN map THEN map[key] ELSE 0

\* variant: the map is replaced by one that holds the new entry alone
MapSet_Fresh(map, key, value) == [k \in {key} |-> value]

\* Map.prototype.set
MapSet(map, key, value) ==
  [k \in (DOMAIN map) \cup {key} |-> IF k = key THEN value ELSE map[k]]

\* variant: the time of every call is stored, also when the answer is false
shouldLogSuggestion_EveryCall(suggestion, requestId, cooldownMs, map, t) ==
  LET key == DebounceKey(requestId, suggestion)
      lastLog == MapGet(map, key)
  IN  [ answer |-> lastLog = 0 \/ (t - lastLog) > cooldownMs,
        map |-> MapSet(map, key, t) ]

\* variant: the answer is given but the time of the call is not stored
shouldLogSuggestion_NotStored(suggestion, requestId, cooldownMs, map, t) ==
  LET key == DebounceKey(requestId, suggestion)
      lastLog == MapGet(map, key)
  IN  [ answer |-> lastLog = 0 \/ (t - lastLog) > cooldownMs,
        map |-> IF key \in DOMAIN map THEN MapSet(map, key, t) ELSE map ]

\* the value returned and the map left behind by one call at time t
shouldLogSuggestion(suggestion, requestId, cooldownMs, map, t) ==
  LET key == DebounceKey(requestId, suggestion)
      lastLog == MapGet(map, key)
  IN  IF lastLog = 0 \/ (t - lastLog) > cooldownMs
        THEN [answer |-> TRUE, map |-> MapSet(map, key, t)]
        ELSE [answer |-> FALSE, map |-> map]

----------------------------------------------------------------------------
(* calculateBackoffHint.  random models Math.random() as random/RandSteps; *)
(* jitter and suggestedDelay are kept in thousandths (jitter 0.85 is 850,  *)
(* a delay of 5000 ms is 5000000).                                         *)

Min(a, b) == IF a < b THEN a ELSE b

Max(a, b) == IF a > b THEN a ELSE b

\* variant: Math.max where the code has Math.min
calculateBackoffHint_Max(random) ==
  LET jitter == (random * 300) \div RandSteps + 850
  IN  [ baseDelay |-> BaseDelayMs,
        maxDelay |-> MaxDelayMs,
        jitter |-> jitter,
        suggestedDelay |-> Max(BaseDelayMs * jitter, MaxDelayMs * 1000) ]

calculateBackoffHint(random) ==
  LET baseDelay == BaseDelayMs
      maxDelay == MaxDelayMs
      jitter == (random * 300) \div RandSteps + 850
  IN  [ baseDelay |-> baseDelay,
        maxDelay |-> maxDelay,
        jitter |-> jitter,
        suggestedDelay |-> Min(baseDelay * jitter, maxDelay * 1000) ]

----------------------------------------------------------------------------
(* detectChallengeEarly(page).  The page is the caller's: what each of its *)
(* methods does when called is part of the input.  A method call either    *)
(* returns a promise that resolves to a value, returns a promise that      *)
(* rejects, throws, or returns a plain value that is no promise (as        *)
(* Puppeteer's page.url() returns a string).                               *)

Resolves(v) == [kind |-> "resolves", value |-> v]

Rejects == [kind |-> "rejects", value |-> NullValue]

Throws == [kind |-> "throws", value |-> NullValue]

Plain(v) == [kind |-> "plain", value |-> v]

TitlePhrases ==
  << <<"c", "h", "e", "c", "k", "i", "n", "g", " ", "y", "o", "u", "r", " ", "b", "r", "o", "w", "s", "e", "r">>,
     <<"s", "e", "c", "u", "r", "i", "t", "y", " ", "c", "h", "e", "c", "k">>,
     <<"c", "l", "o", "u", "d", "f", "l", "a", "r", "e">> >>

BodyPhrases ==
  << <<"c", "h", "e", "c", "k", "i", "n", "g", " ", "y", "o", "u", "r", " ", "b", "r", "o", "w", "s", "e", "r">>,
     <<"c", "l", "o", "u", "d", "f", "l", "a", "r", "e">>,
     <<"s", "e", "c", "u", "r", "i", "t", "y", " ", "c", "h", "e", "c", "k">>,
     <<"c", "a", "p", "t", "c", "h", "a">>,
     <<"s", "u", "s", "p", "i", "c", "i", "o", "u", "s">> >>

UrlPhrases ==
  << <<"c", "h", "a", "l", "l", "e", "n", "g", "e">>,
     <<"c", "a", "p", "t", "c", "h", "a">>,
     <<"s", "e", "c", "u", "r", "i", "t", "y">> >>

IncludesAny(s, phrases) == \E k \in 1..Len(phrases) : Includes(s, phrases[k])

\* how a promise settles whose then-callback lower-cases the value and
\* looks for the phrases; a value without toLowerCase makes the callback
\* throw, which rejects the promise
ThenIncludes(value, phrases) ==
  IF ~IsString(value) THEN "rejects"
  ELSE IF IncludesAny(ToLowerCase(value.chars), phrases) THEN "true" ELSE "false"

\* the first check: page.title().then(...)
TitleCheck(page) ==
  CASE page.title.kind = "throws" -> "throws"
    [] page.title.kind = "plain" -> "throws"
    [] page.title.kind = "rejects" -> "rejects"
    [] page.title.kind = "resolves" -> ThenIncludes(page.title.value, TitlePhrases)

\* the function evaluated in the page
EvaluatedInPage(document) ==
  LET bodyText == IF IsString(document.bodyText)
                    THEN ToLowerCase(document.bodyText.chars) ELSE <<>>
      hasChallenge == IncludesAny(bodyText, BodyPhrases)
  IN  hasChallenge \/ document.challengeElements > 0

\* the second check: page.evaluate(...), which has no then-callback
BodyCheck(page) ==
  CASE page.evaluate.kind = "throws" -> "throws"
    [] page.evaluate.kind = "rejects" -> "rejects"
    [] page.evaluate.kind = "resolves" ->
         IF EvaluatedInPage(page.document) THEN "true" ELSE "false"

\* the third check: page.url().then(...)
UrlCheck(page) ==
  CASE page.url.kind = "throws" -> "throws"
    [] page.url.kind = "plain" -> "throws"
    [] page.url.kind = "rejects" -> "rejects"
    [] page.url.kind = "resolves" -> ThenIncludes(page.url.value, UrlPhrases)

\* what calling each of challengeChecks does: "throws" when the call itself
\* throws, else how the promise it returns settles
CheckOutcomes(page) == <<TitleCheck(page), BodyCheck(page), UrlCheck(page)>>

\* check().catch(() => false): what the caught promise resolves to
Caught(outcome) == IF outcome = "rejects" THEN "false" ELSE outcome

\* lines 588-594
DetectionResult(results) ==
  LET hasChallenge == \E i \in 1..Len(results) : results[i] = "true"
  IN  [ hasChallenge |-> hasChallenge,
        confidence |-> IF hasChallenge THEN "high" ELSE "low",
        type |-> IF hasChallenge THEN "early_detection" ELSE "none" ]

\* the catch block, lines 596-604
DetectionFailed ==
  [hasChallenge |-> FALSE, confidence |-> "low", type |-> "detection_failed"]

NoDetection == [hasChallenge |-> FALSE, confidence |-> "", type |-> ""]

\* the checks that throw when called
ThrowingChecks(page) == {k \in 1..3 : CheckOutcomes(page)[k] = "throws"}

\* challengeChecks.map(check => check()...) calls the checks in order and
\* stops at the first call that throws: the checks before it are in
\* flight, the ones after it are never called
Invoked(page) ==
  IF ThrowingChecks(page) = {}
    THEN [k \in 1..3 |-> "pending"]
    ELSE LET first == CHOOSE k \in ThrowingChecks(page) :
                        \A j \in ThrowingChecks(page) : k <= j
         IN  [k \in 1..3 |-> IF k < first THEN "pending"
                             ELSE IF k = first THEN "threw" ELSE "not_called"]

----------------------------------------------------------------------------
(* sanitizeData(data, options) and truncateHar(har, maxSize).  A payload   *)
(* is a record of its three fields: headers (absent, or an object from     *)
(* header names to values), html (a JavaScript value) and har (absent, or  *)
(* an object whose entries are an array or something else).  An entry of   *)
(* a HAR carries its position in the capture as id, and a response that    *)
(* may be missing.                                                         *)

Redacted == <<"[", "R", "E", "D", "A", "C", "T", "E", "D", "]">>

TruncationMarker == <<".", ".", ".", " ", "[", "T", "R", "U", "N", "C", "A", "T", "E", "D", "]">>

\* removeHeaders = [...] (line 792)
DefaultRemoveHeaders ==
  << <<"a", "u", "t", "h", "o", "r", "i", "z", "a", "t", "i", "o", "n">>,
     <<"c", "o", "o", "k", "i", "e">>,
     <<"x", "-", "a", "p", "i", "-", "k", "e", "y">>,
     <<"x", "-", "a", "u", "t", "h", "-", "t", "o", "k", "e", "n">> >>

\* maxHtmlLength = 1000 (line 793)
DefaultMaxHtmlLength == 1000

\* maxHarSize = 50000 (line 794)
DefaultMaxHarSize == 50000

\* .slice(-10) (line 840)
HarKeepLast == 10

\* size < 10000 (line 844)
HarMaxBodySize == 10000

\* Array.prototype.includes
ArrayIncludes(array, x) == \E i \in 1..Len(array) : array[i] = x

\* String.prototype.slice(0, n) for n >= 0
SliceFromStart(s, n) == SubSeq(s, 1, Min(n, Len(s)))

\* Array.prototype.slice(-n)
SliceLast(array, n) == SubSeq(array, Max(1, Len(array) - n + 1), Len(array))

NoHeaders == [present |-> FALSE, map |-> <<>>]

Headers(map) == [present |-> TRUE, map |-> map]

NoHar == [present |-> FALSE, entries |-> [kind |-> "array", items |-> <<>>]]

Har(items) == [present |-> TRUE, entries |-> [kind |-> "array", items |-> items]]

\* a har object whose entries are not an array
HarWithoutEntries == [present |-> TRUE, entries |-> [kind |-> "other", items |-> <<>>]]

NoResponse == [present |-> FALSE, bodySize |-> 0, mimeType |-> <<>>]

Response(bodySize, mimeType) == [present |-> TRUE, bodySize |-> bodySize, mimeType |-> mimeType]

HarEntry(id, response) == [id |-> id, response |-> response]

\* the filter of lines 841-845
KeepsEntry(entry) ==
  LET size == IF entry.response.present THEN entry.response.bodySize ELSE 0
      contentType == IF entry.response.present THEN entry.response.mimeType ELSE <<>>
  IN  /\ size < HarMaxBodySize
      /\ ~Includes(contentType, <<"i", "m", "a", "g", "e">>)
      /\ ~Includes(contentType, <<"v", "i", "d", "e", "o">>)

\* variant: the entries are filtered first and the last ten of them kept
truncateHar_FilterFirst(har, maxSize) ==
  IF har.entries.kind # "array"
    THEN har
    ELSE [har EXCEPT !.entries.items =
            SliceLast(SelectSeq(har.entries.items, KeepsEntry), HarKeepLast)]

truncateHar(har, maxSize) ==
  IF har.entries.kind # "array"
    THEN har
    ELSE [har EXCEPT !.entries.items =
            SelectSeq(SliceLast(har.entries.items, HarKeepLast), KeepsEntry)]

\* lines 802-812
CleanHeaders(headers, removeHeaders) ==
  [ key \in DOMAIN headers |->
      IF ~ArrayIncludes(removeHeaders, ToLowerCase(key))
        THEN headers[key]
        ELSE Str(Redacted) ]

\* variant: the end of the text is kept, not its start
TruncatedHtml_KeepsEnd(html, maxHtmlLength) ==
  LET cut == SliceLast(html, maxHtmlLength)
  IN  IF Len(cut) >= maxHtmlLength THEN cut \o TruncationMarker ELSE cut

\* lines 816-819, on a string
TruncatedHtml(html, maxHtmlLength) ==
  LET cut == SliceFromStart(html, maxHtmlLength)
  IN  IF Len(cut) >= maxHtmlLength THEN cut \o TruncationMarker ELSE cut

NoData == [present |-> FALSE, headers |-> NoHeaders, html |-> NullValue, har |-> NoHar]

Data(headers, html, har) == [present |-> TRUE, headers |-> headers, html |-> html, har |-> har]

Options(removeHeaders, maxHtmlLength, maxHarSize) == [removeHeaders |-> removeHeaders, maxHtmlLength |-> maxHtmlLength, maxHarSize |-> maxHarSize]

sanitizeData(data, options) ==
  IF ~data.present
    THEN data
    ELSE [ data EXCEPT
           !.headers = IF data.headers.present
                         THEN Headers(CleanHeaders(data.headers.map, options.removeHeaders))
                         ELSE data.headers,
           !.html = IF Truthy(data.html) /\ IsString(data.html)
                      THEN Str(TruncatedHtml(data.html.chars, options.maxHtmlLength))
                      ELSE data.html,
           !.har = IF data.har.present
                     THEN truncateHar(data.har, options.maxHarSize)
                     ELSE data.har ]

----------------------------------------------------------------------------
(* classifyError *)

\* the signals object as created, before any check (lines 622-631)
InitialSignals(statusCode) ==
  [ statusCode |-> statusCode,
    hasChallengePage |-> FALSE,
    hasBlockingStatus |-> FALSE,
    hasNetworkFailures |-> FALSE,
    hasConsoleErrors |-> FALSE,
    hasPageErrors |-> FALSE,
    isTimeout |-> FALSE,
    isNonCriticalResource |-> FALSE ]

\* the loop of lines 643-649 over a body that is a non-empty string
BodyHasIndicator(body) ==
  LET bodyLower == ToLowerCase(body)
  IN  \E i \in 1..Len(ChallengeIndicators) :
        Includes(bodyLower, ToLowerCase(ChallengeIndicators[i]))

\* BodyHasIndicator on every body of the model, evaluated once
BodyHasIndicatorOf == [body \in BodyTexts |-> BodyHasIndicator(body)]

\* if (responseBody) { ... signals.hasChallengePage = true ... }
HasChallengePage(responseBody) ==
  Truthy(responseBody) /\ BodyHasIndicatorOf[responseBody.chars]

\* error.url || url, for one entry of networkErrors
EntryUrl(error, url) == IF Truthy(error.url) THEN error.url ELSE url

\* variant: the failures are not filtered (the classifier before the
\* noise reduction, lines 258-261)
CriticalNetworkErrors_Unfiltered(networkErrors, url) == networkErrors

\* networkErrors.filter(error => !isNonCriticalResource(error.url || url))
CriticalNetworkErrors(networkErrors, url) ==
  SelectSeq(networkErrors,
            LAMBDA error : ~NonCriticalOf[EntryUrl(error, url).chars, NoContentType])

\* errorMessage && errorMessage.includes('timeout')
MessageHasTimeout(errorMessage) ==
  Truthy(errorMessage) /\ Includes(errorMessage.chars, <<"t", "i", "m", "e", "o", "u", "t">>)

\* A TypeError is thrown while the signals are inspected: url.toLowerCase()
\* on a url that is no string (line 506, called from 634 and 656),
\* responseBody.toLowerCase() on a truthy non-string (643), error.url on a
\* null entry (656), errorMessage.includes on a truthy non-string (670).
InspectionThrows(b) ==
  \/ ~IsString(b.url)
  \/ Truthy(b.responseBody) /\ ~IsString(b.responseBody)
  \/ \E i \in 1..Len(b.networkErrors) :
       \/ b.networkErrors[i].kind = "null"
       \/ ~IsString(EntryUrl(b.networkErrors[i], b.url))
  \/ /\ ~b.navigationTimeout
     /\ Truthy(b.errorMessage) /\ ~IsString(b.errorMessage)

\* the signals object when the classification logic starts (lines 633-672)
Signals(b) ==
  [ statusCode |-> b.statusCode,
    hasChallengePage |-> HasChallengePage(b.responseBody),
    hasBlockingStatus |-> b.statusCode # 0 /\ b.statusCode \in DOMAIN BLOCKING_STATUS_CODES,
    hasNetworkFailures |->
      /\ Len(b.networkErrors) > 0
      /\ Len(CriticalNetworkErrors(b.networkErrors, b.url)) > 0,
    hasConsoleErrors |-> Len(b.consoleErrors) > 0,
    hasPageErrors |-> Len(b.pageErrors) > 0,
    isTimeout |-> b.navigationTimeout \/ MessageHasTimeout(b.errorMessage),
    isNonCriticalResource |-> NonCriticalOf[b.url.chars, b.contentType] ]

\* a result that was never computed, or was replaced by a thrown TypeError
Outcome(kind) ==
  [ outcome |-> kind, type |-> "", confidence |-> "",
    signals |-> InitialSignals(0), suggestedAction |-> "",
    backoffHint |-> {}, shouldLog |-> FALSE, isRootCause |-> FALSE ]

\* variant: a suggestion that is not to be logged is reported with low confidence
Returned_LowWhenSuppressed(type, confidence, signals, suggestion, hint, shouldLog, isRootCause) ==
  [ outcome |-> "return", type |-> type,
    confidence |-> IF shouldLog THEN confidence ELSE "low",
    signals |-> signals, suggestedAction |-> suggestion, backoffHint |-> hint,
    shouldLog |-> shouldLog, isRootCause |-> isRootCause ]

\* variant: every suggestion that is to be logged is reported as a root cause
Returned_RootCauseWhenLogged(type, confidence, signals, suggestion, hint, shouldLog, isRootCause) ==
  [ outcome |-> "return", type |-> type, confidence |-> confidence,
    signals |-> signals, suggestedAction |-> suggestion,
    backoffHint |-> hint, shouldLog |-> shouldLog,
    isRootCause |-> (isRootCause \/ shouldLog) ]

Returned(type, confidence, signals, suggestion, hint, shouldLog, isRootCause) ==
  [ outcome |-> "return", type |-> type, confidence |-> confidence,
    signals |-> signals, suggestedAction |-> suggestion,
    backoffHint |-> hint, shouldLog |-> shouldLog, isRootCause |-> isRootCause ]

\* variant: the debouncer is never asked
Debounced_AlwaysTrue(suggestion, requestId, cooldownMs, map, t) ==
  [answer |-> TRUE, map |-> map]

\* requestId ? shouldLogSuggestion(suggestion, requestId, cooldownMs) : true
Debounced(suggestion, requestId, cooldownMs, map, t) ==
  IF requestId # NoRequestId
    THEN shouldLogSuggestion(suggestion, requestId, cooldownMs, map, t)
    ELSE [answer |-> TRUE, map |-> map]

\* the conditions of the priority cascade, in the order they are tested

\* variant: a challenge only counts when the status is not a blocking one
IsChallengeRule_UnlessBlockingStatus(signals) ==
  signals.hasChallengePage /\ ~signals.hasBlockingStatus

IsChallengeRule(signals) == signals.hasChallengePage

IsRateLimitedRule(statusCode) == statusCode = 429

\* variant: 451 is forgotten
IsBlockedRule_Only403(statusCode) == statusCode = 403

\* variant: every status of BLOCKING_STATUS_CODES but 429 is a block
IsBlockedRule_AnyBlockingStatus(statusCode) ==
  statusCode # 0 /\ statusCode \in DOMAIN BLOCKING_STATUS_CODES /\ statusCode # 429

IsBlockedRule(statusCode) == statusCode = 403 \/ statusCode = 451

\* variant: a timeout hides the network failures
IsNetworkErrorRule_UnlessTimeout(signals) ==
  signals.hasNetworkFailures /\ ~signals.isNonCriticalResource /\ ~signals.isTimeout

\* variant: page errors count as network failures
IsNetworkErrorRule_OrPageErrors(signals) ==
  (signals.hasNetworkFailures /\ ~signals.isNonCriticalResource) \/ signals.hasPageErrors

IsNetworkErrorRule(signals) ==
  signals.hasNetworkFailures /\ ~signals.isNonCriticalResource

\* variant: a blocking status (503 included) hides the timeout
IsSlowLoadRule_UnlessBlockingStatus(signals) ==
  signals.isTimeout /\ ~signals.hasChallengePage /\ ~signals.hasBlockingStatus

\* variant: the negation of hasChallengePage is lost
IsSlowLoadRule_WithChallenge(signals) == signals.isTimeout /\ signals.hasChallengePage

IsSlowLoadRule(signals) == signals.isTimeout /\ ~signals.hasChallengePage

IsTimeoutRule(signals) == signals.isTimeout

\* variant: the fallback asks to be logged
FallbackResult_Logged(signals) ==
  Returned(ERROR_TYPES.UNKNOWN_TIMEOUT, "low", signals, "enable_debug_mode",
           {}, TRUE, FALSE)

\* the final return, taken when no condition matched
FallbackResult(signals) ==
  Returned(ERROR_TYPES.UNKNOWN_TIMEOUT, "low", signals, "enable_debug_mode",
           {}, FALSE, FALSE)

\* classifyError(b) called at time t with Math.random() = random/RandSteps
\* and the debounce map `map`: the result and the map afterwards
classifyError(b, map, t, random) ==
  IF InspectionThrows(b) THEN [result |-> Outcome("throw"), map |-> map]
  ELSE
  LET signals == Signals(b)
      statusCode == b.statusCode
      requestId == b.requestId
      Branch(type, confidence, suggestion, cooldownMs, hint, isRootCause) ==
        LET d == Debounced(suggestion, requestId, cooldownMs, map, t)
        IN  [ result |-> Returned(type, confidence, signals, suggestion,
                                  hint, d.answer, isRootCause),
              map |-> d.map ]
  IN  IF IsChallengeRule(signals)
        THEN Branch(ERROR_TYPES.CHALLENGE_PAGE, "high", "use_residential_proxy",
                    DefaultCooldownMs, {}, TRUE)
      ELSE IF IsRateLimitedRule(statusCode)
        THEN Branch(ERROR_TYPES.RATE_LIMITED, "high", "exponential_backoff",
                    DefaultCooldownMs, {calculateBackoffHint(random)}, TRUE)
      ELSE IF IsBlockedRule(statusCode)
        THEN Branch(ERROR_TYPES.BLOCKED, "high", "rotate_proxy",
                    DefaultCooldownMs, {}, TRUE)
      ELSE IF IsNetworkErrorRule(signals)
        THEN Branch(ERROR_TYPES.NETWORK_ERROR, "medium", "retry_with_delay",
                    NetworkCooldownMs, {}, FALSE)
      ELSE IF IsSlowLoadRule(signals)
        THEN Branch(ERROR_TYPES.SLOW_LOAD, "medium", "increase_timeout",
                    DefaultCooldownMs, {}, FALSE)
      ELSE IF IsTimeoutRule(signals)
        THEN Branch(ERROR_TYPES.UNKNOWN_TIMEOUT, "low", "enable_debug_mode",
                    DefaultCooldownMs, {}, FALSE)
      ELSE [result |-> FallbackResult(signals), map |-> map]

----------------------------------------------------------------------------
(* Signal bundles *)

Entry(url) == [kind |-> "entry", url |-> url]

\* a null element of networkErrors
NullEntry == [kind |-> "null", url |-> NullValue]

\* every sequence over S of length at most n
SeqsUpTo(S, n) == UNION {[1..k -> S] : k \in 0..n}

RequestIds == {"r1", "r2"}

StatusCodes == {0, 200, 403, 429, 451, 503}

Bundle(statusCode, responseBody, consoleErrors, networkErrors, pageErrors, navigationTimeout, errorMessage, url, contentType, requestId) ==
  [ statusCode |-> statusCode, responseBody |-> responseBody,
    consoleErrors |-> consoleErrors, networkErrors |-> networkErrors,
    pageErrors |-> pageErrors, navigationTimeout |-> navigationTimeout,
    errorMessage |-> errorMessage, url |-> url, contentType |-> contentType,
    requestId |-> requestId ]

\* bundles of the documented shape: every combination of the signals the
\* priority cascade reads
CoreBundles ==
  { Bundle(s, body, <<>>, net, <<>>, nav, msg, url, ct, rid) :
      s \in StatusCodes,
      body \in {NullValue, Str(<<>>), PlainBody, RobotBody},
      net \in SeqsUpTo({Entry(ApiUrl), Entry(PngUrl)}, MaxNetErrors),
      nav \in BOOLEAN,
      msg \in {NullValue, TimeoutMessage},
      url \in {PageUrl, AssetsPageUrl},
      ct \in {NoContentType, ImageContentType},
      rid \in {NoRequestId, "r1"} }

\* bundles whose body is one indicator of the table, as the table spells it
IndicatorBundles ==
  { Bundle(s, Str(ChallengeIndicators[i]), <<>>, net, <<>>, nav, NullValue,
           PageUrl, NoContentType, rid) :
      s \in {200, 429}, i \in 1..Len(ChallengeIndicators),
      net \in {<<>>, <<Entry(ApiUrl)>>}, nav \in BOOLEAN,
      rid \in {NoRequestId, "r2"} }

\* partial and malformed bundles, console and page errors, entries without
\* a url, messages that do not say 'timeout'
OddBundles ==
  { Bundle(s, body, con, net, pg, FALSE, msg, url, NoContentType, rid) :
      s \in {0, 403},
      body \in {NullValue, ObjectValue},
      con \in {<<>>, <<"console error">>},
      net \in {<<>>, <<Entry(NullValue)>>, <<NullEntry>>,
               <<Entry(GtmUrl), Entry(GtmUrl2)>>, <<Entry(ObjectValue)>>},
      pg \in {<<>>, <<"page error">>},
      msg \in {NullValue, CapitalTimeoutMessage, FailedMessage, ObjectValue},
      url \in {PageUrl, NullValue},
      rid \in {NoRequestId, "r2"} }

Bundles == CoreBundles \cup IndicatorBundles \cup OddBundles

----------------------------------------------------------------------------
(* The state machine.  now is Date.now(); suggestionDebounce the module's  *)
(* Map; bundle the argument of the last (or, before the first call, the    *)
(* next) call of classifyError; result what that call returned or threw;   *)
(* rnd the last value drawn from Math.random(); log the observer's record  *)
(* of the calls made so far: who asked, what was returned, and when.       *)

TickMs == DefaultCooldownMs

\* the signals of four page loads: a challenge page, a failed critical
\* request, a navigation timeout, and nothing at all
SeqSignals ==
  { <<RobotBody, <<>>, FALSE>>, <<NullValue, <<Entry(ApiUrl)>>, FALSE>>,
    <<NullValue, <<>>, TRUE>>, <<NullValue, <<>>, FALSE>> }

SeqBundles ==
  { Bundle(0, s[1], <<>>, s[2], <<>>, s[3], NullValue, PageUrl, NoContentType, rid) :
      s \in SeqSignals, rid \in {NoRequestId} \cup RequestIds }

FirstBundle ==
  Bundle(0, NullValue, <<>>, <<>>, <<>>, FALSE, NullValue, PageUrl,
         NoContentType, NoRequestId)

\* the pages detectChallengeEarly is called with
MarriottTitle == Str(<<"M", "a", "r", "r", "i", "o", "t", "t", " ", "H", "o", "t", "e", "l", "s">>)

SecurityCheckTitle == Str(<<"S", "e", "c", "u", "r", "i", "t", "y", " ", "C", "h", "e", "c", "k">>)

CaptchaBody == Str(<<"E", "n", "t", "e", "r", " ", "t", "h", "e", " ", "C", "A", "P", "T", "C", "H", "A">>)

ChallengeUrl == Str(<<"m", "a", "r", "r", "i", "o", "t", "t", ".", "c", "o", "m", "/", "C", "h", "a", "l", "l", "e", "n", "g", "e">>)

TitleCalls == {Resolves(MarriottTitle), Resolves(SecurityCheckTitle), Resolves(NullValue), Rejects, Throws}

EvaluateCalls == {Resolves(NullValue), Rejects, Throws}

UrlCalls == {Resolves(PageUrl), Resolves(ChallengeUrl), Rejects, Throws, Plain(PageUrl)}

Documents ==
  [bodyText : {NullValue, PlainBody, CaptchaBody}, challengeElements : {0, 1}]

Pages == [title : TitleCalls, evaluate : EvaluateCalls, url : UrlCalls, document : Documents]

\* detect: the page of the detectChallengeEarly call, where the call is
\* (idle: not made; awaiting: at the await of Promise.all; returned), the
\* state of each of the three checks, and the object returned
IdleDetect ==
  [ page |-> [ title |-> Resolves(MarriottTitle), evaluate |-> Resolves(NullValue),
               url |-> Resolves(PageUrl),
               document |-> [bodyText |-> PlainBody, challengeElements |-> 0] ],
    pc |-> "idle",
    checks |-> [k \in 1..3 |-> "not_called"],
    result |-> NoDetection ]

\* no call of sanitizeData, truncateHar or isNonCriticalResource made yet
IdleUtil == [op |-> "none"]

InitCommon ==
  /\ now = StartMs
  /\ suggestionDebounce = <<>>
  /\ result = Outcome("none")
  /\ rnd = 0
  /\ log = <<>>

\* the page loads of the crawler's request handlers (PuppeteerCrawler runs
\* up to maxConcurrency async handlers in one process).  A handler is
\* "loading" while it awaits the page, "failed" once it holds the signals
\* of its failure, "classified" once it has called classifyError; call is
\* the position of that call in log.
LoadIds == 1..MaxLoads

IdleLoad == [pc |-> "loading", bundle |-> FirstBundle, call |-> 0]

IdleLoads == [p \in LoadIds |-> IdleLoad]

\* the failures the concurrent handlers meet: a blocked page or a failed
\* critical request, under one of the request ids
ParBundles ==
  { Bundle(st, NullValue, <<>>, net, <<>>, FALSE, NullValue, PageUrl, NoContentType, rid) :
      st \in {403}, net \in {<<>>}, rid \in RequestIds }
  \cup
  { Bundle(st, NullValue, <<>>, net, <<>>, FALSE, NullValue, PageUrl, NoContentType, rid) :
      st \in {0}, net \in {<<Entry(ApiUrl)>>}, rid \in RequestIds }

\* one page load: the caller holds one bundle
Init == InitCommon /\ bundle \in Bundles /\ loads = IdleLoads /\ detect = IdleDetect /\ util = IdleUtil

\* a crawl: bundles of several page loads arrive one after the other
InitSeq == InitCommon /\ bundle = FirstBundle /\ loads = IdleLoads /\ detect = IdleDetect /\ util = IdleUtil

\* a crawl with concurrent page loads
InitPar == InitCommon /\ bundle = FirstBundle /\ loads = IdleLoads /\ detect = IdleDetect /\ util = IdleUtil

\* Math.random() is read only by calculateBackoffHint, which classifyError
\* calls only when statusCode === 429 (lines 689-698)
RandomDraws(b) == IF b.statusCode = 429 THEN 0..(RandSteps - 1) ELSE {0}

LogEntry(b, r, t) ==
  [ requestId |-> b.requestId, outcome |-> r.outcome, type |-> r.type,
    suggestedAction |-> r.suggestedAction, shouldLog |-> r.shouldLog, at |-> t ]

\* one call classifyError(b)
CallClassifyError(b) ==
  /\ Len(log) < MaxCalls
  /\ \E random \in RandomDraws(b) :
       LET out == classifyError(b, suggestionDebounce, now, random)
       IN  /\ result' = out.result
           /\ suggestionDebounce' = out.map
           /\ rnd' = IF out.result.backoffHint # {} THEN random ELSE rnd
           /\ log' = Append(log, LogEntry(b, out.result, now))
  /\ bundle' = b
  /\ UNCHANGED now

\* the caller classifies the bundle it holds
Classify == CallClassifyError(bundle) /\ UNCHANGED <<loads, detect, util>>

\* the caller classifies the bundle of another page load
ClassifyOther == (\E b \in SeqBundles : CallClassifyError(b)) /\ UNCHANGED <<loads, detect, util>>

\* the handler of page load p resumes from an await with the signals of a
\* failed load; the handlers of the other loads may run before it goes on
NavigationFails(p) ==
  /\ loads[p].pc = "loading"
  /\ \E b \in ParBundles :
       loads' = [loads EXCEPT ![p] = [pc |-> "failed", bundle |-> b, call |-> 0]]
  /\ UNCHANGED <<now, suggestionDebounce, bundle, result, rnd, log, detect, util>>

\* the handler of page load p calls classifyError.  The call is synchronous
\* (no await between get and set of the map, lines 530-536), so it runs to
\* completion before any other handler is resumed.
ClassifyLoad(p) ==
  /\ loads[p].pc = "failed"
  /\ CallClassifyError(loads[p].bundle)
  /\ loads' = [loads EXCEPT ![p].pc = "classified", ![p].call = Len(log) + 1]
  /\ UNCHANGED <<detect, util>>

\* time passes
Tick ==
  /\ now < StartMs + MaxTicks * TickMs
  /\ now' = now + TickMs
  /\ UNCHANGED <<suggestionDebounce, bundle, result, rnd, log, loads, detect, util>>

\* time passes between the first classification of a page load and the
\* next ones (before the first call the map is empty and the time of no
\* consequence)
Wait == Len(log) = 1 /\ Tick

Next == Classify \/ Wait

Spec == Init /\ [][Next]_vars

NextSeq == ClassifyOther \/ Tick

SpecSeq == InitSeq /\ [][NextSeq]_vars

NextPar ==
  \/ \E p \in LoadIds : NavigationFails(p)
  \/ \E p \in LoadIds : ClassifyLoad(p)
  \/ Tick

SpecPar == InitPar /\ [][NextPar]_vars

InitDetect ==
  /\ InitCommon /\ bundle = FirstBundle /\ loads = IdleLoads /\ util = IdleUtil
  /\ detect \in {[IdleDetect EXCEPT !.page = page] : page \in Pages}

\* detectChallengeEarly(page) up to its await: the checks are called in
\* order (line 585); a call that throws leaves the try block for the catch
\* block, which returns at once (lines 596-604)
CallDetectChallengeEarly ==
  /\ detect.pc = "idle"
  /\ detect' = [detect EXCEPT
       !.checks = Invoked(detect.page),
       !.pc = IF ThrowingChecks(detect.page) = {} THEN "awaiting" ELSE "returned",
       !.result = IF ThrowingChecks(detect.page) = {} THEN NoDetection
                                                      ELSE DetectionFailed ]
  /\ UNCHANGED <<classifierVars, util>>

\* the promise of check k settles; a rejection is caught and becomes false
SettleCheck(k) ==
  /\ detect.checks[k] = "pending"
  /\ detect' = [detect EXCEPT !.checks[k] = Caught(CheckOutcomes(detect.page)[k])]
  /\ UNCHANGED <<classifierVars, util>>

\* Promise.all resolves once every check has settled; lines 588-594
ReturnDetection ==
  /\ detect.pc = "awaiting"
  /\ \A k \in 1..3 : detect.checks[k] \in {"true", "false"}
  /\ detect' = [detect EXCEPT !.pc = "returned",
                              !.result = DetectionResult(detect.checks)]
  /\ UNCHANGED <<classifierVars, util>>

NextDetect ==
  \/ CallDetectChallengeEarly
  \/ \E k \in 1..3 : SettleCheck(k)
  \/ ReturnDetection

SpecDetect == InitDetect /\ [][NextDetect]_vars

----------------------------------------------------------------------------
(* Calls of the utilities.  util holds the last call: its arguments, what  *)
(* it returned and, for sanitizeData, what sanitizeData returned when it   *)
(* was given its own result again.                                         *)

\* html texts of up to MaxShortHtml characters, and har captures of up to
\* MaxHarEntries entries
MaxShortHtml == 6

MaxHarEntries == 12

Repeat(c, n) == [i \in 1..n |-> c]

HeaderNames ==
  { <<"A", "u", "t", "h", "o", "r", "i", "z", "a", "t", "i", "o", "n">>,
    <<"c", "o", "o", "k", "i", "e">>,
    <<"X", "-", "A", "P", "I", "-", "K", "e", "y">>,
    <<"a", "c", "c", "e", "p", "t">>,
    <<"X", "-", "T", "r", "a", "c", "e">> }

SecretValue == Str(<<"s", "e", "c", "r", "e", "t">>)

HeaderMaps == UNION {[names -> {SecretValue}] : names \in SUBSET HeaderNames}

AllHeaders == [name \in HeaderNames |-> SecretValue]

ShortHtml == Str(<<"s", "h", "o", "r", "t">>)

HtmlLengths == (0..MaxShortHtml) \cup {DefaultMaxHtmlLength - 1, DefaultMaxHtmlLength, DefaultMaxHtmlLength + 1, 2 * DefaultMaxHtmlLength}

Htmls == {NullValue, ObjectValue, ShortHtml} \cup {Str(Repeat("A", n)) : n \in HtmlLengths}

HtmlMimeType == <<"t", "e", "x", "t", "/", "h", "t", "m", "l">>

PngMimeType == <<"i", "m", "a", "g", "e", "/", "p", "n", "g">>

VideoMimeType == <<"v", "i", "d", "e", "o", "/", "m", "p", "4">>

\* the responses a capture is made of: a page, an image, a video, a page
\* of exactly the size limit, a page just below it, and no response
ResponseKinds ==
  << Response(500, HtmlMimeType), Response(500, PngMimeType),
     Response(500, VideoMimeType), Response(HarMaxBodySize, HtmlMimeType),
     Response(HarMaxBodySize - 1, HtmlMimeType), NoResponse >>

\* a capture of n entries that runs through the kinds, starting at shift
HarOf(n, shift) ==
  Har([i \in 1..n |-> HarEntry(i, ResponseKinds[((i + shift) % Len(ResponseKinds)) + 1])])

Hars ==
  {NoHar, HarWithoutEntries} \cup
  {HarOf(n, shift) : n \in 0..MaxHarEntries, shift \in 0..(Len(ResponseKinds) - 1)}

Payloads ==
  {NoData}
  \cup {Data(Headers(h), ShortHtml, NoHar) : h \in HeaderMaps}
  \cup {Data(NoHeaders, html, NoHar) : html \in Htmls}
  \cup {Data(NoHeaders, NullValue, har) : har \in Hars}
  \cup {Data(Headers(AllHeaders), Str(Repeat("A", n)), HarOf(MaxHarEntries, 0)) : n \in 0..MaxShortHtml}

\* the deny-lists callers pass: none (the default), one in lower case, one
\* written as the header is, and an empty one
RemoveHeadersLists ==
  { DefaultRemoveHeaders,
    << <<"x", "-", "t", "r", "a", "c", "e">> >>,
    << <<"X", "-", "T", "r", "a", "c", "e">> >>,
    <<>> }

OptionSets ==
  { Options(removeHeaders, maxHtmlLength, DefaultMaxHarSize) :
      removeHeaders \in RemoveHeadersLists,
      maxHtmlLength \in {DefaultMaxHtmlLength, 0, Len(ShortHtml.chars) - 2, Len(ShortHtml.chars)} }

CssContentType == <<"t", "e", "x", "t", "/", "c", "s", "s">>

CssCharsetContentType == <<"t", "e", "x", "t", "/", "c", "s", "s", ";", " ", "c", "h", "a", "r", "s", "e", "t", "=", "u", "t", "f", "-", "8">>

FontContentType == <<"f", "o", "n", "t", "/", "w", "o", "f", "f", "2">>

XFontContentType == <<"a", "p", "p", "l", "i", "c", "a", "t", "i", "o", "n", "/", "x", "-", "f", "o", "n", "t", "/", "t", "t", "f">>

CapitalImageContentType == <<"I", "M", "A", "G", "E", "/", "P", "N", "G">>

MultipartContentType == <<"m", "u", "l", "t", "i", "p", "a", "r", "t", "/", "r", "e", "l", "a", "t", "e", "d", ";", " ", "t", "y", "p", "e", "=", "i", "m", "a", "g", "e", "/", "j", "p", "e", "g">>

CallContentTypes ==
  { NoContentType, ImageContentType, HtmlMimeType, CssContentType,
    CssCharsetContentType, FontContentType, XFontContentType,
    CapitalImageContentType, MultipartContentType }

InitUtil ==
  /\ InitCommon /\ bundle = FirstBundle /\ loads = IdleLoads
  /\ detect = IdleDetect /\ util = IdleUtil

\* sanitizeData(data, options)
CallSanitizeData ==
  /\ util.op = "none"
  /\ \E data \in Payloads : \E options \in OptionSets :
       util' = [ op |-> "sanitizeData", data |-> data, options |-> options,
                 ret |-> sanitizeData(data, options) ]
  /\ UNCHANGED <<classifierVars, detect>>

\* sanitizeData(sanitizeData(data, options), options)
SanitizeAgain ==
  /\ util.op = "sanitizeData"
  /\ util' = [ op |-> "sanitizeData twice", data |-> util.data,
               options |-> util.options, ret |-> util.ret,
               again |-> sanitizeData(util.ret, util.options) ]
  /\ UNCHANGED <<classifierVars, detect>>

\* truncateHar(har, maxSize), as sanitizeData calls it (line 824)
CallTruncateHar ==
  /\ util.op = "none"
  /\ \E har \in Hars \ {NoHar} :
       util' = [ op |-> "truncateHar", har |-> har,
                 ret |-> truncateHar(har, DefaultMaxHarSize) ]
  /\ UNCHANGED <<classifierVars, detect>>

\* isNonCriticalResource(url, contentType)
CallIsNonCriticalResource ==
  /\ util.op = "none"
  /\ \E url \in UrlTexts : \E contentType \in CallContentTypes :
       util' = [ op |-> "isNonCriticalResource", url |-> url,
                 contentType |-> contentType,
                 ret |-> isNonCriticalResource(url, contentType) ]
  /\ UNCHANGED <<classifierVars, detect>>

NextUtil ==
  \/ CallSanitizeData
  \/ SanitizeAgain
  \/ CallTruncateHar
  \/ CallIsNonCriticalResource

SpecUtil == InitUtil /\ [][NextUtil]_vars

----------------------------------------------------------------------------
(* createTimeline.  The clock is now (Date.now()); util holds the timeline *)
(* object, the last call made on it, what it returned, and the elapsed     *)
(* readings handed out so far in the order of the calls.                   *)

MaxElapsedMs == 4

MaxReadings == 3

\* how far the clock may advance between two reads of Date.now() that one
\* call makes
MaxStepMs == 1

Stages == {"navigation", "extraction"}

\* createTimeline(), called when Date.now() is t: the closure's startTime
createTimeline(t) == [start |-> t]

\* timeline.mark(stage); first and second are what the two calls of
\* Date.now() return, in the order the object literal evaluates them
mark(timeline, stage, first, second) ==
  [stage |-> stage, timestamp |-> first, elapsed |-> second - timeline.start]

\* timeline.getElapsed() when Date.now() is t
getElapsed(timeline, t) == t - timeline.start

InitTimeline ==
  /\ InitCommon /\ bundle = FirstBundle /\ loads = IdleLoads
  /\ detect = IdleDetect /\ util = IdleUtil

CallCreateTimeline ==
  /\ util.op = "none"
  /\ util' = [ op |-> "createTimeline", timeline |-> createTimeline(now),
               ret |-> createTimeline(now), readings |-> << >> ]
  /\ UNCHANGED <<classifierVars, detect>>

TimelineMade == util.op \in {"createTimeline", "mark", "getElapsed"}

\* timeline.mark(stage): two reads of the clock, which may advance between
CallMark ==
  /\ TimelineMade /\ Len(util.readings) < MaxReadings
  /\ \E stage \in Stages : \E step \in 0..MaxStepMs :
       /\ now + step <= StartMs + MaxElapsedMs
       /\ now' = now + step
       /\ LET record == mark(util.timeline, stage, now, now + step)
          IN  util' = [ op |-> "mark", timeline |-> util.timeline,
                        ret |-> record,
                        readings |-> Append(util.readings, record.elapsed) ]
  /\ UNCHANGED <<suggestionDebounce, bundle, result, rnd, log, loads, detect>>

\* timeline.getElapsed()
CallGetElapsed ==
  /\ TimelineMade /\ Len(util.readings) < MaxReadings
  /\ LET elapsed == getElapsed(util.timeline, now)
     IN  util' = [ op |-> "getElapsed", timeline |-> util.timeline,
                   ret |-> elapsed,
                   readings |-> Append(util.readings, elapsed) ]
  /\ UNCHANGED <<classifierVars, detect>>

\* the clock advances between two calls
ClockAdvances ==
  /\ now < StartMs + MaxElapsedMs
  /\ now' = now + 1
  /\ UNCHANGED <<suggestionDebounce, bundle, result, rnd, log, loads, detect, util>>

NextTimeline ==
  \/ CallCreateTimeline
  \/ CallMark
  \/ CallGetElapsed
  \/ ClockAdvances

SpecTimeline == InitTimeline /\ [][NextTimeline]_vars

----------------------------------------------------------------------------
(* getCrawlerConfig.  A JS object is a function from the names of its own  *)
(* properties to their values; a property that is missing reads undefined. *)

RATE_PROFILES ==
  [ slow   |-> [requestDelayMs |-> 2000, maxConcurrency |-> 1],
    normal |-> [requestDelayMs |-> 1000, maxConcurrency |-> 10],
    fast   |-> [requestDelayMs |-> 500, maxConcurrency |-> 20] ]

DEFAULT_CRAWLER_CONFIG ==
  [ maxRequestRetries |-> 2, navigationTimeoutSecs |-> 60, maxPages |-> 10,
    respectRobotsTxt |-> TRUE, rateProfile |-> "normal" ]

\* value !== undefined, for object.key
Defined(object, key) == key \in DOMAIN object

\* object.key = value
SetProperty(object, key, value) ==
  [k \in (DOMAIN object) \cup {key} |-> IF k = key THEN value ELSE object[k]]

\* input.rateProfile && RATE_PROFILES[input.rateProfile]
ProfileSpecified(input) ==
  /\ Defined(input, "rateProfile")
  /\ input.rateProfile # ""
  /\ input.rateProfile \in DOMAIN RATE_PROFILES

\* the first step of getCrawlerConfig: the defaults, and the two settings of
\* the rate profile when the input names one
WithRateProfile(input) ==
  IF ProfileSpecified(input)
    THEN LET profile == RATE_PROFILES[input.rateProfile]
         IN  SetProperty(SetProperty(DEFAULT_CRAWLER_CONFIG,
                                     "requestDelayMs", profile.requestDelayMs),
                         "maxConcurrency", profile.maxConcurrency)
    ELSE DEFAULT_CRAWLER_CONFIG

\* if (input.key !== undefined) config.key = input.key
Override(config, input, key) ==
  IF Defined(input, key) THEN SetProperty(config, key, input[key]) ELSE config

\* the explicit settings, in the order they are applied
ExplicitSettings ==
  << "maxRequestRetries", "navigationTimeoutSecs", "maxPages",
     "maxConcurrency", "requestDelayMs", "respectRobotsTxt" >>

RECURSIVE OverrideAll(_, _, _)
OverrideAll(config, input, n) ==
  IF n = 0 THEN config
  ELSE Override(OverrideAll(config, input, n - 1), input, ExplicitSettings[n])

getCrawlerConfig(input) ==
  OverrideAll(WithRateProfile(input), input, Len(ExplicitSettings))

\* the delay the request handler waits after navigation:
\* if (crawlerConfig.requestDelayMs > 0) await setTimeout(..., requestDelayMs)
RequestDelay(crawlerConfig) ==
  IF Defined(crawlerConfig, "requestDelayMs") /\ crawlerConfig.requestDelayMs > 0
    THEN crawlerConfig.requestDelayMs
    ELSE 0

\* the inputs: every subset of the properties, with these values
InputValues ==
  { [ rateProfile |-> profile, maxConcurrency |-> 5, requestDelayMs |-> delay,
      maxRequestRetries |-> 0, navigationTimeoutSecs |-> 30, maxPages |-> 3,
      respectRobotsTxt |-> FALSE ] :
      profile \in {"slow", "normal", "fast", "turbo", ""}, delay \in {0, 250} }

Inputs ==
  { [k \in keys |-> full[k]] :
      full \in InputValues,
      keys \in SUBSET ((DOMAIN DEFAULT_CRAWLER_CONFIG) \cup {"maxConcurrency", "requestDelayMs"}) }

InitConfig ==
  /\ InitCommon /\ bundle = FirstBundle /\ loads = IdleLoads
  /\ detect = IdleDetect /\ util = IdleUtil

\* const crawlerConfig = getCrawlerConfig(input)
CallGetCrawlerConfig ==
  /\ util.op = "none"
  /\ \E input \in Inputs :
       util' = [ op |-> "getCrawlerConfig", input |-> input,
                 ret |-> getCrawlerConfig(input), waited |-> 0 ]
  /\ UNCHANGED <<classifierVars, detect>>

\* the request handler waits between requests
WaitRequestDelay ==
  /\ util.op = "getCrawlerConfig"
  /\ util' = [util EXCEPT !.op = "requestDelay", !.waited = RequestDelay(util.ret)]
  /\ now' = now + RequestDelay(util.ret)
  /\ UNCHANGED <<suggestionDebounce, bundle, result, rnd, log, loads, detect>>

NextConfig == CallGetCrawlerConfig \/ WaitRequestDelay

SpecConfig == InitConfig /\ [][NextConfig]_vars

----------------------------------------------------------------------------
(* urlHelpers: extractMarsha and extractSlug.  The regular expressions are *)
(* modelled by what they match on a text, position by position.            *)

Letters == (DOMAIN LowerCaseOf) \cup {LowerCaseOf[c] : c \in DOMAIN LowerCaseOf}

UpperOfChar(c) ==
  IF \E u \in DOMAIN LowerCaseOf : LowerCaseOf[u] = c
    THEN CHOOSE u \in DOMAIN LowerCaseOf : LowerCaseOf[u] = c
    ELSE c

\* String.prototype.toUpperCase
ToUpperCase(s) == [i \in 1..Len(s) |-> UpperOfChar(s[i])]

HotelsSegment == <<"/", "h", "o", "t", "e", "l", "s", "/">>

TravelSegment == <<"t", "r", "a", "v", "e", "l", "/">>

\* the text s continues at position i with the literal, letter case aside
\* (the flag i of the patterns)
LiteralAt(s, i, literal) ==
  /\ i >= 1 /\ i + Len(literal) - 1 <= Len(s)
  /\ \A j \in 1..Len(literal) : LowerOfChar(s[i + j - 1]) = literal[j]

\* the same, letter case included (a pattern without the flag i)
ExactLiteralAt(s, i, literal) ==
  /\ i >= 1 /\ i + Len(literal) - 1 <= Len(s)
  /\ \A j \in 1..Len(literal) : s[i + j - 1] = literal[j]

\* the number of letters s has in a row from position i on
RECURSIVE LettersFrom(_, _)
LettersFrom(s, i) ==
  IF i <= Len(s) /\ s[i] \in Letters THEN 1 + LettersFrom(s, i + 1) ELSE 0

\* the number of characters other than "/" s has in a row from position i on
RECURSIVE NonSlashesFrom(_, _)
NonSlashesFrom(s, i) ==
  IF i <= Len(s) /\ s[i] # "/" THEN 1 + NonSlashesFrom(s, i + 1) ELSE 0

MarshaMinLength == 3

MarshaMaxLength == 6

\* ([A-Z]{3,6})- at position i: the group is the run of letters, which the
\* hyphen must follow
CodeAndHyphenAt(s, i) ==
  LET n == LettersFrom(s, i)
  IN  /\ n >= MarshaMinLength /\ n <= MarshaMaxLength
      /\ i + n <= Len(s) /\ s[i + n] = "-"

\* [A-Z]{3,6}-([^\/]+) at position i
CodeHyphenAndSlugAt(s, i) ==
  /\ CodeAndHyphenAt(s, i)
  /\ NonSlashesFrom(s, i + LettersFrom(s, i) + 1) >= 1

\* what follows \/hotels\/(?:travel\/)? in the pattern of extractSlug
\* (withSlug) and in pattern1 of extractMarsha
RestMatches(s, i, withSlug) ==
  IF withSlug THEN CodeHyphenAndSlugAt(s, i) ELSE CodeAndHyphenAt(s, i)

\* where, for a match of \/hotels\/(?:travel\/)? at position i, the code
\* starts: after travel/ when the rest matches there (the optional group is
\* tried first), else right after /hotels/ when it matches there, else 0
CodeStart(s, i, withSlug) ==
  IF ~LiteralAt(s, i, HotelsSegment) THEN 0
  ELSE LET afterHotels == i + Len(HotelsSegment)
           afterTravel == afterHotels + Len(TravelSegment)
       IN  IF LiteralAt(s, afterHotels, TravelSegment) /\ RestMatches(s, afterTravel, withSlug)
             THEN afterTravel
           ELSE IF RestMatches(s, afterHotels, withSlug) THEN afterHotels
           ELSE 0

\* the leftmost position at which the pattern matches, 0 when it does not
FirstMatch(s, withSlug) ==
  LET starts == {i \in 1..Len(s) : CodeStart(s, i, withSlug) # 0}
  IN  IF starts = {} THEN 0 ELSE CHOOSE i \in starts : \A k \in starts : i <= k

\* url.match(/\/hotels\/(?:travel\/)?([A-Z]{3,6})-/i): the group, or no match
Pattern1(url) ==
  LET i == FirstMatch(url, FALSE)
  IN  IF i = 0 THEN [matched |-> FALSE, group |-> << >>]
      ELSE LET c == CodeStart(url, i, FALSE)
           IN  [matched |-> TRUE, group |-> SubSeq(url, c, c + LettersFrom(url, c) - 1)]

\* where the text continues after ^https?:\/\/[^\/]+ (0 when the text does
\* not start so); exact tells whether letter case counts
AfterDomain(url, exact) ==
  LET At(i, literal) == IF exact THEN ExactLiteralAt(url, i, literal)
                        ELSE LiteralAt(url, i, literal)
      afterScheme == IF At(1, <<"h", "t", "t", "p", "s", ":", "/", "/">>) THEN 9
                     ELSE IF At(1, <<"h", "t", "t", "p", ":", "/", "/">>) THEN 8
                     ELSE 0
  IN  IF afterScheme = 0 \/ NonSlashesFrom(url, afterScheme) = 0 THEN 0
      ELSE afterScheme + NonSlashesFrom(url, afterScheme)

\* url.match(/^https?:\/\/[^\/]+\/([A-Z]{3,6})(?:\/|$)/i)
Pattern2(url) ==
  LET slash == AfterDomain(url, FALSE)
      n     == IF slash = 0 THEN 0 ELSE LettersFrom(url, slash + 1)
  IN  IF /\ slash # 0 /\ slash <= Len(url)
         /\ n >= MarshaMinLength /\ n <= MarshaMaxLength
         /\ (slash + n = Len(url) \/ url[slash + n + 1] = "/")
        THEN [matched |-> TRUE, group |-> SubSeq(url, slash + 1, slash + n)]
        ELSE [matched |-> FALSE, group |-> << >>]

\* url.replace(/^https?:\/\/[^\/]+/, '')
PathAfterDomain(url) ==
  LET slash == AfterDomain(url, TRUE)
  IN  IF slash = 0 THEN url ELSE SubSeq(url, slash, Len(url))

\* extractMarsha(url); url is a JS value, the result the characters of a string
extractMarsha(url) ==
  IF ~Truthy(url) THEN << >>
  ELSE IF Pattern1(url.chars).matched
    THEN ToUpperCase(Pattern1(url.chars).group)
  ELSE IF /\ Pattern2(url.chars).matched
          /\ ~Includes(PathAfterDomain(url.chars), HotelsSegment)
    THEN ToUpperCase(Pattern2(url.chars).group)
  ELSE << >>

\* extractSlug(url)
extractSlug(url) ==
  IF ~Truthy(url) THEN << >>
  ELSE LET i == FirstMatch(url.chars, TRUE)
       IN  IF i = 0 THEN << >>
           ELSE LET c    == CodeStart(url.chars, i, TRUE)
                    from == c + LettersFrom(url.chars, c) + 1
                IN  SubSeq(url.chars, from, from + NonSlashesFrom(url.chars, from) - 1)

\* the urls of the calls, with the parts they are made of: kind says
\* whether the url has the long form, is a short-code url, or has no code
Schemes == {<<"h", "t", "t", "p", "s", ":", "/", "/">>, <<"h", "t", "t", "p", ":", "/", "/">>}

Hosts == {<<"w", "w", "w", ".", "m", "a", "r", "r", "i", "o", "t", "t", ".", "c", "o", "m">>, <<"s", "t", "-", "r", "e", "g", "i", "s", ".", "m", "a", "r", "r", "i", "o", "t", "t", ".", "c", "o", "m">>, <<"w", "w", "w", ".", "r", "i", "t", "z", "c", "a", "r", "l", "t", "o", "n", ".", "c", "o", "m">>}

HotelPrefixes == {<<"/", "h", "o", "t", "e", "l", "s", "/">> \o <<"t", "r", "a", "v", "e", "l", "/">>, <<"/", "h", "o", "t", "e", "l", "s", "/">>, <<"/", "e", "n", "/", "h", "o", "t", "e", "l", "s", "/">>}

LongCodes == {<<"a", "d", "d", "l", "c">>, <<"A", "B", "C", "D", "E", "F">>, <<"A", "B", "C">>}

ShortCodes == {<<"A", "D", "D", "L", "C">>, <<"A", "B", "C">>, <<"D", "E", "A", "D", "H", "O", "T", "E", "L">>, <<"t", "u", "s", "r", "z">>}

Slugs == {<<"t", "e", "s", "t">>, <<"t", "e", "s", "t", "-", "h", "o", "t", "e", "l">>}

Tails == {<<"/">>, <<"/", "o", "v", "e", "r", "v", "i", "e", "w", "/">>}

NoCodePaths == {<< >>, <<"/">>, <<"/", "h", "o", "t", "e", "l", "s", "/">> \o <<"t", "r", "a", "v", "e", "l", "/">>}

HotelUrl(kind, chars, code, slug) ==
  [kind |-> kind, url |-> Str(chars), code |-> code, slug |-> slug]

LongUrls ==
  { HotelUrl("long", scheme \o host \o prefix \o code \o <<"-">> \o slug \o tail, code, slug) :
      scheme \in Schemes, host \in Hosts, prefix \in HotelPrefixes,
      code \in LongCodes, slug \in Slugs, tail \in Tails }

ShortUrls ==
  { HotelUrl("short", scheme \o host \o <<"/">> \o code, code, << >>) :
      scheme \in Schemes, host \in Hosts, code \in ShortCodes }

NoCodeUrls ==
  { HotelUrl("none", scheme \o host \o path, << >>, << >>) :
      scheme \in Schemes, host \in Hosts, path \in NoCodePaths }

EmptyUrls == { [kind |-> "empty", url |-> Str(<< >>), code |-> << >>, slug |-> << >>],
               [kind |-> "empty", url |-> NullValue, code |-> << >>, slug |-> << >>] }

HotelUrls == LongUrls \cup ShortUrls \cup NoCodeUrls \cup EmptyUrls

InitUrl ==
  /\ InitCommon /\ bundle = FirstBundle /\ loads = IdleLoads
  /\ detect = IdleDetect /\ util = IdleUtil

CallExtractMarsha ==
  /\ util.op = "none"
  /\ \E input \in HotelUrls :
       util' = [op |-> "extractMarsha", input |-> input, ret |-> extractMarsha(input.url)]
  /\ UNCHANGED <<classifierVars, detect>>

CallExtractSlug ==
  /\ util.op = "none"
  /\ \E input \in HotelUrls :
       util' = [op |-> "extractSlug", input |-> input, ret |-> extractSlug(input.url)]
  /\ UNCHANGED <<classifierVars, detect>>

NextUrl == CallExtractMarsha \/ CallExtractSlug

SpecUrl == InitUrl /\ [][NextUrl]_vars

----------------------------------------------------------------------------
(* The hotels of a run: resolveAndExtract for a hotel link, the hotel data *)
(* the strategy builds from it, and the request handler's loop that cleans *)
(* and validates each hotel and pushes it, or an error, into the dataset.  *)

\* what page.goto(url) does: it throws, or resolves to null or to a response
NavigationThrows == [kind |-> "throws", status |-> 0]

NoNavigationResponse == [kind |-> "null", status |-> 0]

HttpResponse(status) == [kind |-> "response", status |-> status]

DeadStatus == 400

\* resolveAndExtract(url, page): page.goto(url) behaves as goto says and
\* page.url() is finalUrl afterwards
resolveAndExtract(url, goto, finalUrl) ==
  IF goto.kind = "throws"
    THEN [ canonicalUrl |-> url, marshaCode |-> extractMarsha(Str(url)),
           slug |-> extractSlug(Str(url)), isLive |-> FALSE ]
    ELSE [ canonicalUrl |-> finalUrl,
           marshaCode |-> extractMarsha(Str(finalUrl)),
           slug |-> extractSlug(Str(finalUrl)),
           isLive |-> ~(goto.kind = "response" /\ goto.status >= DeadStatus) ]

\* BaseStrategy.extractHotelData: the fields of hotelData that come from
\* the link (name, brand, dates and source url are present and valid)
HotelData(urlInfo) ==
  [ url |-> urlInfo.canonicalUrl, marsha_code |-> urlInfo.marshaCode,
    slug |-> urlInfo.slug, is_live |-> urlInfo.isLive ]

Alphanumerics == Letters \cup {"0", "1", "2", "3", "4", "5", "6", "7", "8", "9"}

\* cleanMarshaCode(marshaCode)
cleanMarshaCode(marshaCode) ==
  LET cleaned == ToUpperCase(SelectSeq(marshaCode, LAMBDA c : c \in Alphanumerics))
  IN  IF Len(cleaned) < MarshaMinLength \/ Len(cleaned) > MarshaMaxLength
        THEN << >> ELSE cleaned

\* cleanUrl(url): https instead of http, no trailing slash
cleanUrl(url) ==
  LET http    == <<"h", "t", "t", "p", ":", "/", "/">>
      https   == <<"h", "t", "t", "p", "s", ":", "/", "/">>
      secured == IF ExactLiteralAt(url, 1, http)
                   THEN https \o SubSeq(url, Len(http) + 1, Len(url))
                   ELSE url
  IN  IF Len(secured) > 0 /\ secured[Len(secured)] = "/"
        THEN SubSeq(secured, 1, Len(secured) - 1)
        ELSE secured

\* cleanAndValidateHotelData(hotel): the cleaned fields, and isValid, which
\* for these hotels depends on url and marsha_code alone
cleanAndValidateHotelData(hotel) ==
  LET cleaned == [ url |-> cleanUrl(hotel.url),
                   marsha_code |-> cleanMarshaCode(hotel.marsha_code),
                   is_live |-> hotel.is_live ]
  IN  [ data |-> cleaned,
        isValid |-> cleaned.url # << >> /\ cleaned.marsha_code # << >> ]

\* createErrorObject(type, message, url, marshaCode = '', status = null);
\* a status of 0 stands for null
createErrorObject(type, message, url, marshaCode, status) ==
  [ type |-> type, message |-> message, url |-> url,
    marsha_code |-> marshaCode, status |-> status ]

\* handleDeadHotel(url, marshaCode, status)
handleDeadHotel(url, marshaCode, status) ==
  createErrorObject("dead_hotel", "Hotel appears to be dead or removed from portfolio",
                    url, marshaCode, status)

\* handleExtractionError(url, error)
handleExtractionError(url) ==
  createErrorObject("extraction_error", "Data extraction failed", url, << >>, 0)

\* what the request handler pushes into the dataset for one scraped hotel
Pushed(hotel) ==
  LET checked == cleanAndValidateHotelData(hotel)
  IN  IF checked.isValid
        THEN [kind |-> "hotel", item |-> checked.data]
        ELSE [kind |-> "error", item |-> handleExtractionError(hotel.url)]

MaxHotels == 1

Statuses == {200, 404, 410, 500}

Gotos == {NavigationThrows, NoNavigationResponse} \cup {HttpResponse(s) : s \in Statuses}

\* the links of the hotels on the directory page
HotelLinks == {h \in LongUrls \cup ShortUrls : h.url.chars[5] = "s"}

\* the page a link redirects to, when it does
RedirectTarget == <<"h", "t", "t", "p", "s", ":", "/", "/", "w", "w", "w", ".", "m", "a", "r", "r", "i", "o", "t", "t", ".", "c", "o", "m", "/", "h", "o", "t", "e", "l", "s", "/", "t", "r", "a", "v", "e", "l", "/", "a", "d", "d", "l", "c", "-", "t", "e", "s", "t", "/", "o", "v", "e", "r", "v", "i", "e", "w", "/">>

InitScrape ==
  /\ InitCommon /\ bundle = FirstBundle /\ loads = IdleLoads
  /\ detect = IdleDetect
  /\ util = [op |-> "scrape", dataset |-> << >>, hotels |-> 0]

\* strategy.scrape: extractHotelData resolves the link of the next hotel
ExtractHotelData ==
  /\ util.op \in {"scrape", "pushData"} /\ util.hotels < MaxHotels
  /\ \E link \in HotelLinks : \E goto \in Gotos :
       \E finalUrl \in {link.url.chars, RedirectTarget} :
         util' = [ op |-> "extractHotelData", dataset |-> util.dataset,
                   hotels |-> util.hotels + 1,
                   link |-> link, goto |-> goto,
                   hotelData |-> HotelData(resolveAndExtract(link.url.chars, goto, finalUrl)) ]
  /\ UNCHANGED <<classifierVars, detect>>

\* the request handler's loop: one hotel is cleaned, validated and pushed
PushHotel ==
  /\ util.op = "extractHotelData"
  /\ util' = [util EXCEPT !.op = "pushData",
                          !.dataset = Append(@, Pushed(util.hotelData))]
  /\ UNCHANGED <<classifierVars, detect>>

NextScrape == ExtractHotelData \/ PushHotel

SpecScrape == InitScrape /\ [][NextScrape]_vars

----------------------------------------------------------------------------
(* Vocabulary of the properties, stated on the bundle and not through the  *)
(* classifier's own signals                                                *)

\* classifyError has been called on bundle, and result is its outcome
Called == result.outcome # "none"

\* the bundle has the shape the data model gives it: the request url is
\* text, body and message are text or null, every network error is an
\* object whose url is text or missing
DocumentedShape(b) ==
  /\ IsString(b.url)
  /\ b.responseBody.kind \in {"null", "text"}
  /\ b.errorMessage.kind \in {"null", "text"}
  /\ \A i \in 1..Len(b.networkErrors) :
       /\ b.networkErrors[i].kind = "entry"
       /\ b.networkErrors[i].url.kind \in {"null", "text"}

\* some piece of text equals, letter case aside, an indicator of some category
MentionsIndicator(text) ==
  \E c \in 1..Len(CHALLENGE_INDICATORS) :
    \E k \in 1..Len(CHALLENGE_INDICATORS[c]) :
      \E i \in 1..Len(text) : \E j \in i..Len(text) :
        ToLowerCase(SubSeq(text, i, j)) = ToLowerCase(CHALLENGE_INDICATORS[c][k])

MentionsIndicatorOf == [text \in BodyTexts \cup {<<>>} |-> MentionsIndicator(text)]

BodyHasChallenge(b) ==
  IsString(b.responseBody) /\ MentionsIndicatorOf[b.responseBody.chars]

\* the url contains a substring of the non-critical table
UrlIsNonCritical(url) ==
  \E c \in 1..Len(NON_CRITICAL_RESOURCES) :
    \E k \in 1..Len(NON_CRITICAL_RESOURCES[c]) :
      \E i \in 1..Len(url) : \E j \in i..Len(url) :
        ToLowerCase(SubSeq(url, i, j)) = NON_CRITICAL_RESOURCES[c][k]

UrlIsNonCriticalOf == [url \in UrlTexts |-> UrlIsNonCritical(url)]

\* the content type, lower-cased, contains image/, font/ or text/css
ContentTypeIsNonCritical(contentType) ==
  \E p \in {<<"i", "m", "a", "g", "e", "/">>,
            <<"f", "o", "n", "t", "/">>,
            <<"t", "e", "x", "t", "/", "c", "s", "s">>} :
    \E i \in 1..(Len(contentType) - Len(p) + 1) :
      ToLowerCase(SubSeq(contentType, i, i + Len(p) - 1)) = p

\* what isNonCriticalResource says of the request's own url and content type
RequestIsNonCritical(b) ==
  UrlIsNonCriticalOf[b.url.chars] \/ ContentTypeIsNonCritical(b.contentType)

HasUrl(error) == error.kind = "entry" /\ IsString(error.url) /\ error.url.chars # <<>>

\* some entry of networkErrors has a url, and that url is not non-critical
HasCriticalEntry(b) ==
  \E i \in 1..Len(b.networkErrors) :
    HasUrl(b.networkErrors[i]) /\ ~UrlIsNonCriticalOf[b.networkErrors[i].url.chars]

\* every entry of networkErrors has a non-critical url
AllEntriesNonCritical(b) ==
  \A i \in 1..Len(b.networkErrors) :
    HasUrl(b.networkErrors[i]) /\ UrlIsNonCriticalOf[b.networkErrors[i].url.chars]

\* no entry is left once the non-critical ones are dropped; an entry
\* without a url is judged by the url of the request
NoCriticalEntryRemains(b) ==
  \A i \in 1..Len(b.networkErrors) :
    IF HasUrl(b.networkErrors[i])
      THEN UrlIsNonCriticalOf[b.networkErrors[i].url.chars]
      ELSE UrlIsNonCriticalOf[b.url.chars]

\* the navigation-timeout flag is set or the message contains "timeout"
TimedOut(b) ==
  \/ b.navigationTimeout
  \/ /\ IsString(b.errorMessage)
     /\ \E i \in 1..(Len(b.errorMessage.chars) - 6) :
          SubSeq(b.errorMessage.chars, i, i + 6) = <<"t", "i", "m", "e", "o", "u", "t">>

StatusDecides(b) == b.statusCode \in {429, 403, 451}

Is(r, type, confidence, suggestion, isRootCause) ==
  /\ r.outcome = "return"
  /\ r.type = type
  /\ r.confidence = confidence
  /\ r.suggestedAction = suggestion
  /\ r.isRootCause = isRootCause

----------------------------------------------------------------------------
(* C1 - C10 *)

\* C1: whenever the response body contains an indicator of the challenge
\* table, in any letter case, the result is CHALLENGE_PAGE, high,
\* use_residential_proxy, root cause - whatever the status code (429, 403,
\* 451 included), the network errors, the timeout flag and the message.
C1_ChallengeHasPriority ==
  (Called /\ DocumentedShape(bundle) /\ BodyHasChallenge(bundle)) =>
    Is(result, ERROR_TYPES.CHALLENGE_PAGE, "high", "use_residential_proxy", TRUE)

\* a challenge body together with status 429, a failed critical request, the
\* timeout flag and a timeout message
C1_Witness ==
  /\ Called /\ BodyHasChallenge(bundle)
  /\ bundle.statusCode = 429
  /\ HasCriticalEntry(bundle)
  /\ bundle.navigationTimeout /\ bundle.errorMessage = TimeoutMessage
  /\ result.type = ERROR_TYPES.CHALLENGE_PAGE

\* C2: classifyError is total - whatever the bundle (request url missing,
\* body that is no text, null entries in networkErrors), the call returns
\* a record whose type is a member of ERROR_TYPES and never throws.
C2_ClassifyErrorIsTotal ==
  Called =>
    /\ result.outcome = "return"
    /\ result.type \in {ERROR_TYPES[k] : k \in DOMAIN ERROR_TYPES}

\* C3 as claimed: no indicator, status not 429/403/451, and some network
\* error with a url that is not non-critical give NETWORK_ERROR, medium,
\* retry_with_delay, not a root cause - whatever the timeout flag and
\* whatever the request's own url and content type.
C3_CriticalEntryIsNetworkError ==
  ( /\ Called /\ DocumentedShape(bundle)
    /\ ~BodyHasChallenge(bundle) /\ ~StatusDecides(bundle)
    /\ HasCriticalEntry(bundle) ) =>
    Is(result, ERROR_TYPES.NETWORK_ERROR, "medium", "retry_with_delay", FALSE)

\* C3 as amended: the same, provided isNonCriticalResource(url, contentType)
\* is false for the request's own url and content type (the result's
\* signals.isNonCriticalResource); the timeout flag still plays no part.
C3_CriticalEntryIsNetworkErrorUnlessRequestNonCritical ==
  ( /\ Called /\ DocumentedShape(bundle)
    /\ ~BodyHasChallenge(bundle) /\ ~StatusDecides(bundle)
    /\ HasCriticalEntry(bundle)
    /\ ~RequestIsNonCritical(bundle) ) =>
    Is(result, ERROR_TYPES.NETWORK_ERROR, "medium", "retry_with_delay", FALSE)

\* a failed critical request, after a non-critical one, with the timeout
\* flag set and status 503
C3_Witness ==
  /\ Called /\ HasCriticalEntry(bundle) /\ ~AllEntriesNonCritical(bundle)
  /\ Len(bundle.networkErrors) = 2
  /\ bundle.navigationTimeout /\ bundle.statusCode = 503
  /\ result.type = ERROR_TYPES.NETWORK_ERROR

\* C4: status 429 without an indicator gives RATE_LIMITED, high,
\* exponential_backoff, root cause, whatever the network errors and the
\* timeout flag, with a hint of base 5000 and max 300000 whose delay is
\* min(base * jitter, max), jitter within [0.85, 1.15] and so the delay
\* within [0.85 * base, max]; the jitter is the one of this call's draw.
\* (jitter and delay are in thousandths.)
C4_RateLimitedWithBackoffHint ==
  (Called /\ DocumentedShape(bundle) /\ bundle.statusCode = 429
     /\ ~BodyHasChallenge(bundle)) =>
    /\ Is(result, ERROR_TYPES.RATE_LIMITED, "high", "exponential_backoff", TRUE)
    /\ Cardinality(result.backoffHint) = 1
    /\ \A h \in result.backoffHint :
         /\ h.baseDelay = 5000 /\ h.maxDelay = 300000
         /\ 850 <= h.jitter /\ h.jitter <= 1150
         /\ h.suggestedDelay =
              IF 5000 * h.jitter < 300000 * 1000 THEN 5000 * h.jitter
                                                 ELSE 300000 * 1000
         /\ 5000 * 850 <= h.suggestedDelay /\ h.suggestedDelay <= 300000 * 1000
         /\ h.jitter * RandSteps <= 850 * RandSteps + 300 * rnd
         /\ h.jitter * RandSteps > 850 * RandSteps + 300 * rnd - RandSteps

\* a second 429 classification whose draw, and so whose hint, is not the
\* first one's
C4_Witness ==
  /\ Len(log) = 2 /\ result.type = ERROR_TYPES.RATE_LIMITED
  /\ HasCriticalEntry(bundle) /\ bundle.navigationTimeout
  /\ rnd = RandSteps - 1
  /\ \E h \in result.backoffHint : h.jitter > 1000

\* C5: status 403 or 451 without an indicator gives BLOCKED, high,
\* rotate_proxy, root cause, whatever the network errors and the timeout flag.
C5_BlockedStatus ==
  (Called /\ DocumentedShape(bundle) /\ bundle.statusCode \in {403, 451}
     /\ ~BodyHasChallenge(bundle)) =>
    Is(result, ERROR_TYPES.BLOCKED, "high", "rotate_proxy", TRUE)

C5_Witness ==
  /\ Called /\ bundle.statusCode = 451
  /\ HasCriticalEntry(bundle) /\ bundle.navigationTimeout
  /\ result.type = ERROR_TYPES.BLOCKED

\* C6: the timeout flag or a message containing "timeout", with no
\* indicator, a status other than 429/403/451 and no critical network error
\* left, gives SLOW_LOAD, medium, increase_timeout, not a root cause.
C6_SlowLoad ==
  ( /\ Called /\ DocumentedShape(bundle)
    /\ TimedOut(bundle)
    /\ ~BodyHasChallenge(bundle) /\ ~StatusDecides(bundle)
    /\ NoCriticalEntryRemains(bundle) ) =>
    Is(result, ERROR_TYPES.SLOW_LOAD, "medium", "increase_timeout", FALSE)

\* the timeout is known from the message alone, the status is 503 and the
\* only failed request is a non-critical one
C6_Witness ==
  /\ Called /\ ~bundle.navigationTimeout /\ TimedOut(bundle)
  /\ bundle.statusCode = 503 /\ bundle.responseBody = NullValue
  /\ Len(bundle.networkErrors) = 1
  /\ result.type = ERROR_TYPES.SLOW_LOAD

\* C7: a bundle without indicator, with a status other than 429/403/451,
\* no critical network error left and no timeout gives the fallback:
\* UNKNOWN_TIMEOUT, low, enable_debug_mode, not a root cause, shouldLog
\* false - with or without a requestId.
C7_Fallback ==
  ( /\ Called /\ DocumentedShape(bundle)
    /\ ~BodyHasChallenge(bundle) /\ ~StatusDecides(bundle)
    /\ NoCriticalEntryRemains(bundle) /\ ~TimedOut(bundle) ) =>
    /\ Is(result, ERROR_TYPES.UNKNOWN_TIMEOUT, "low", "enable_debug_mode", FALSE)
    /\ ~result.shouldLog

C7_Witness ==
  /\ Called /\ bundle.requestId # NoRequestId
  /\ bundle.responseBody = PlainBody /\ bundle.statusCode = 200
  /\ result.type = ERROR_TYPES.UNKNOWN_TIMEOUT /\ ~result.shouldLog

\* C8: when every network error has a non-critical url, hasNetworkFailures
\* is false and the type is not NETWORK_ERROR; without indicator, deciding
\* status or timeout the result is the fallback with shouldLog false.
C8_NonCriticalFailuresAreNoise ==
  (Called /\ DocumentedShape(bundle) /\ AllEntriesNonCritical(bundle)) =>
    /\ result.outcome = "return"
    /\ ~result.signals.hasNetworkFailures
    /\ result.type # ERROR_TYPES.NETWORK_ERROR
    /\ (~BodyHasChallenge(bundle) /\ ~StatusDecides(bundle) /\ ~TimedOut(bundle)) =>
         /\ Is(result, ERROR_TYPES.UNKNOWN_TIMEOUT, "low", "enable_debug_mode", FALSE)
         /\ ~result.shouldLog

\* two failed requests, both to googletagmanager, and nothing else
C8_Witness ==
  /\ Called
  /\ bundle.networkErrors = <<Entry(GtmUrl), Entry(GtmUrl2)>>
  /\ bundle.statusCode = 0 /\ bundle.responseBody = NullValue
  /\ bundle.errorMessage = NullValue
  /\ result.type = ERROR_TYPES.UNKNOWN_TIMEOUT /\ ~result.shouldLog

\* a single failed request whose url ends in .png, and nothing else
C8_WitnessPng ==
  /\ Called
  /\ bundle.networkErrors = <<Entry(PngUrl)>>
  /\ bundle.statusCode = 0 /\ bundle.responseBody = NullValue
  /\ ~TimedOut(bundle)
  /\ result.type = ERROR_TYPES.UNKNOWN_TIMEOUT

\* the cooldown the classifier passes with each suggestion
CooldownOf(suggestion) == IF suggestion = "retry_with_delay" THEN 10000 ELSE 5000

\* C9: in every step that returns a non-fallback result, shouldLog is true
\* when there is no requestId (and the map is left alone), and otherwise
\* is what the debouncer answers, on the map and at the time of the call,
\* for the key made of the requestId and of the suggestedAction of that
\* same result (and the map is the one the debouncer leaves).
C9_ShouldLogIsTheDebouncersAnswer ==
  [][ ( /\ Len(log') = Len(log) + 1
        /\ result'.outcome = "return"
        /\ result'.type # ERROR_TYPES.UNKNOWN_TIMEOUT ) =>
      IF bundle'.requestId = NoRequestId
        THEN result'.shouldLog /\ suggestionDebounce' = suggestionDebounce
        ELSE LET asked == shouldLogSuggestion(result'.suggestedAction,
                                              bundle'.requestId,
                                              CooldownOf(result'.suggestedAction),
                                              suggestionDebounce, now)
             IN  /\ result'.shouldLog = asked.answer
                 /\ suggestionDebounce' = asked.map ]_vars

\* a second classification with the same requestId that is not to be logged
C9_Witness ==
  /\ Len(log) = 2 /\ bundle.requestId # NoRequestId
  /\ result.type = ERROR_TYPES.BLOCKED
  /\ log[1].shouldLog /\ ~result.shouldLog
  /\ log[2].at > log[1].at

\* the calls that asked the debouncer: a requestId was given and the result
\* is not the fallback
Asked(i) ==
  /\ log[i].requestId # NoRequestId
  /\ log[i].outcome = "return"
  /\ log[i].type # ERROR_TYPES.UNKNOWN_TIMEOUT

SameKey(i, j) ==
  /\ log[i].requestId = log[j].requestId
  /\ log[i].suggestedAction = log[j].suggestedAction

\* the earlier calls on the key of call i that returned true
EarlierTrue(i) == {j \in 1..(i - 1) : Asked(j) /\ SameKey(i, j) /\ log[j].shouldLog}

Latest(S) == CHOOSE j \in S : \A k \in S : k <= j

\* C10: a call on a key returns true exactly when no earlier call on that
\* key returned true, or the last one that did is older than the cooldown;
\* the stored time is that of the last call that returned true, so calls
\* that returned false neither move it nor extend the window.
C10_DebounceWindow ==
  \A i \in 1..Len(log) :
    Asked(i) =>
      /\ log[i].shouldLog =
           ( \/ EarlierTrue(i) = {}
             \/ log[i].at - log[Latest(EarlierTrue(i))].at
                  > CooldownOf(log[i].suggestedAction) )
      /\ LET key == DebounceKey(log[i].requestId, log[i].suggestedAction)
             true == {j \in 1..Len(log) : Asked(j) /\ SameKey(i, j) /\ log[j].shouldLog}
         IN  /\ true # {}
             /\ key \in DOMAIN suggestionDebounce
             /\ suggestionDebounce[key] = log[Latest(true)].at

\* three calls on one key: logged, suppressed within the cooldown, and
\* logged again once the cooldown since the first has passed
C10_Witness ==
  /\ Len(log) = 3
  /\ \A i \in 1..3 : Asked(i) /\ SameKey(i, 1)
  /\ log[1].shouldLog /\ ~log[2].shouldLog /\ log[3].shouldLog
  /\ log[2].at > log[1].at
  /\ log[3].at - log[1].at > CooldownOf(log[3].suggestedAction)
  /\ log[3].at - log[2].at <= CooldownOf(log[3].suggestedAction)

----------------------------------------------------------------------------
(* C11 - C20 *)

\* the classifications of two different page loads
Concurrent(p, q) ==
  /\ p # q
  /\ loads[p].pc = "classified" /\ loads[q].pc = "classified"
  /\ Asked(loads[p].call) /\ Asked(loads[q].call)
  /\ SameKey(loads[p].call, loads[q].call)

\* C11: of the classifications of two concurrently handled page loads that
\* ask the debouncer for the same (requestId, suggestion) key within one
\* cooldown, at most one is answered true: the second sees what the first
\* stored, and what the first stored is not lost: the map holds, for the
\* key, its time or that of a later call answered true.
C11_NoLostDebounceUpdate ==
  \A p \in LoadIds : \A q \in LoadIds :
    ( /\ Concurrent(p, q)
      /\ loads[p].call < loads[q].call
      /\ log[loads[q].call].at - log[loads[p].call].at
           <= CooldownOf(log[loads[p].call].suggestedAction)
      /\ log[loads[p].call].shouldLog ) =>
      /\ ~log[loads[q].call].shouldLog
      /\ LET key == DebounceKey(log[loads[p].call].requestId,
                                log[loads[p].call].suggestedAction)
         IN  /\ key \in DOMAIN suggestionDebounce
             /\ suggestionDebounce[key] >= log[loads[p].call].at

\* both handlers held their failure before either classified it, and
\* classified it at the same instant: the first is logged, the second not
C11_Witness ==
  /\ Concurrent(1, 2)
  /\ loads[2].call = 1 /\ loads[1].call = 2
  /\ log[1].at = log[2].at
  /\ log[1].shouldLog /\ ~log[2].shouldLog

\* what a result says apart from shouldLog (and the randomly drawn hint)
Classification(r) ==
  [ outcome |-> r.outcome, type |-> r.type, confidence |-> r.confidence,
    suggestedAction |-> r.suggestedAction, isRootCause |-> r.isRootCause,
    signals |-> r.signals ]

Suggestions ==
  { "use_residential_proxy", "exponential_backoff", "rotate_proxy",
    "retry_with_delay", "increase_timeout", "enable_debug_mode" }

\* other times at which the call could have been made, or an entry stored
OtherTimes == {StartMs, StartMs + MaxTicks * TickMs}

\* other contents of the map: empty, or an entry for one of the keys of
\* the bundle's request
OtherMaps(b) ==
  {<<>>} \cup { (DebounceKey(b.requestId, s) :> t) : s \in Suggestions, t \in OtherTimes }

\* C12: the debounce state reaches only shouldLog - the call that gave
\* result, made on the same bundle with any other map content and at any
\* other time, returns the same type, confidence, suggestedAction,
\* isRootCause and signals (and throws if and only if this one threw).
C12_DebounceReachesOnlyShouldLog ==
  Called =>
    \A m \in OtherMaps(bundle) : \A t \in OtherTimes :
      Classification(classifyError(bundle, m, t, rnd).result) = Classification(result)

\* a second classification of a challenge page whose suggestion is not
\* logged again, while the first one's was
C12_Witness ==
  /\ Len(log) = 2 /\ bundle.requestId # NoRequestId
  /\ suggestionDebounce # <<>>
  /\ result.type = ERROR_TYPES.CHALLENGE_PAGE /\ result.confidence = "high"
  /\ log[1].shouldLog /\ ~result.shouldLog
  /\ \E m \in OtherMaps(bundle) : \E t \in OtherTimes :
       classifyError(bundle, m, t, rnd).result.shouldLog

\* the checks that yield true, and the ones that yield false
Yields(value) == {k \in 1..3 : CheckOutcomes(detect.page)[k] = value}

\* C13: once detectChallengeEarly has returned, hasChallenge is true with
\* confidence high if some check yields true, false with confidence low if
\* all three yield false, and every check has settled.
C13_DetectionIsTheOrOfItsChecks ==
  detect.pc = "returned" =>
    /\ Yields("true") # {} =>
         detect.result.hasChallenge /\ detect.result.confidence = "high"
    /\ Yields("false") = 1..3 =>
         ~detect.result.hasChallenge /\ detect.result.confidence = "low"
    /\ \A k \in 1..3 : detect.checks[k] \in {"true", "false"}

\* C14: a check that fails, by rejecting or by throwing when called, counts
\* as false and hides no other check: if another check yields true the
\* result is hasChallenge true with confidence high.
C14_FailedCheckCountsAsFalse ==
  ( /\ detect.pc = "returned"
    /\ Yields("rejects") \cup Yields("throws") # {}
    /\ Yields("true") # {} ) =>
    detect.result.hasChallenge /\ detect.result.confidence = "high"

\* C15: when each of the three checks fails, the result is hasChallenge
\* false, confidence low, type detection_failed - not the type none of
\* three checks that yield false.
C15_AllChecksFailedIsDetectionFailed ==
  ( /\ detect.pc = "returned"
    /\ Yields("rejects") \cup Yields("throws") = 1..3 ) =>
    detect.result = DetectionFailed

\* sanitizeData has been called on a payload that is not null
Sanitized == util.op \in {"sanitizeData", "sanitizeData twice"} /\ util.data.present

\* the header name is in the deny-list, letter case aside
InDenyList(name, removeHeaders) ==
  \E i \in 1..Len(removeHeaders) : ToLowerCase(removeHeaders[i]) = ToLowerCase(name)

\* C16: sanitizeData keeps the header names, gives every header whose name
\* is, letter case aside, in the deny-list (the default one or the
\* caller's) the value '[REDACTED]', and leaves every other header's value.
C16_DeniedHeadersAreRedacted ==
  (Sanitized /\ util.data.headers.present) =>
    /\ util.ret.headers.present
    /\ DOMAIN util.ret.headers.map = DOMAIN util.data.headers.map
    /\ \A name \in DOMAIN util.data.headers.map :
         util.ret.headers.map[name] =
           IF InDenyList(name, util.options.removeHeaders)
             THEN Str(Redacted)
             ELSE util.data.headers.map[name]

\* C17: a html text longer than maxHtmlLength becomes its first
\* maxHtmlLength characters followed by the marker; one of at most
\* maxHtmlLength characters (and a html that is no text) is returned as it is.
C17_HtmlTruncatedOnlyWhenLonger ==
  Sanitized =>
    IF IsString(util.data.html) /\ Len(util.data.html.chars) > util.options.maxHtmlLength
      THEN /\ util.ret.html =
                Str(SubSeq(util.data.html.chars, 1, util.options.maxHtmlLength)
                      \o TruncationMarker)
           /\ Len(util.ret.html.chars) =
                util.options.maxHtmlLength + Len(TruncationMarker)
      ELSE util.ret.html = util.data.html

\* C18: sanitizeData given its own result, with the same options, returns
\* that result: the same headers, the same html, the same har.
C18_SanitizeDataIsIdempotent ==
  util.op = "sanitizeData twice" =>
    /\ util.again.headers = util.ret.headers
    /\ util.again.html = util.ret.html
    /\ util.again.har = util.ret.har
    /\ util.again = util.ret

\* a payload whose html was cut, whose har lost entries and whose headers
\* were redacted, sanitized a second time
C18_Witness ==
  /\ util.op = "sanitizeData twice" /\ util.data.present
  /\ Len(util.data.html.chars) > util.options.maxHtmlLength
  /\ util.options.maxHtmlLength > 0
  /\ Len(util.ret.html.chars) = util.options.maxHtmlLength + Len(TruncationMarker)
  /\ Len(util.ret.har.entries.items) < HarKeepLast
  /\ Len(util.data.har.entries.items) > HarKeepLast
  /\ \E name \in DOMAIN util.ret.headers.map :
       /\ util.ret.headers.map[name] = Str(Redacted)
       /\ util.data.headers.map[name] # Str(Redacted)
  /\ util.again = util.ret

\* the body size of an entry (0 without a response) is below 10000 and its
\* content type contains neither 'image' nor 'video'
SmallAndNoMedia(entry) ==
  /\ (IF entry.response.present THEN entry.response.bodySize ELSE 0) < 10000
  /\ \A word \in {<<"i", "m", "a", "g", "e">>, <<"v", "i", "d", "e", "o">>} :
       \A i \in 1..(Len(entry.response.mimeType) - 4) :
         SubSeq(entry.response.mimeType, i, i + 4) # word

\* the positions of the input, among its last ten, whose entry is to be kept
KeptPositions(items) ==
  {i \in 1..Len(items) : i > Len(items) - 10 /\ SmallAndNoMedia(items[i])}

\* C19: truncateHar returns the entries among the last ten of the input
\* that are small and no media, each as it was and in the input's order:
\* at most ten entries, none taken from before the last ten.
C19_TruncateHarKeepsSmallOfLastTen ==
  (util.op = "truncateHar" /\ util.har.entries.kind = "array") =>
    LET items == util.har.entries.items
        kept == util.ret.entries.items
    IN  /\ util.ret.entries.kind = "array"
        /\ Len(kept) = Cardinality(KeptPositions(items))
        /\ Len(kept) <= 10
        /\ \A j \in 1..Len(kept) :
             /\ kept[j].id \in KeptPositions(items)
             /\ kept[j] = items[kept[j].id]
             /\ j > 1 => kept[j - 1].id < kept[j].id

\* a capture of more than ten entries, with kept entries before the last
\* ten and dropped entries among the last ten
C19_Witness ==
  /\ util.op = "truncateHar" /\ util.har.entries.kind = "array"
  /\ Len(util.har.entries.items) > 10
  /\ SmallAndNoMedia(util.har.entries.items[1])
  /\ Len(util.ret.entries.items) < 10
  /\ Len(util.ret.entries.items) > 0
  /\ \A j \in 1..Len(util.ret.entries.items) : util.ret.entries.items[j].id > 1

StartsWith(s, prefix) ==
  Len(s) >= Len(prefix) /\ SubSeq(s, 1, Len(prefix)) = prefix

\* C20 as claimed: isNonCriticalResource is true exactly when the url
\* contains, in lower case, a substring of the table, or the content type
\* starts with image/ or font/, or the content type is text/css.
C20_NonCriticalByPrefixOfContentType ==
  util.op = "isNonCriticalResource" =>
    util.ret =
      ( \/ UrlIsNonCritical(util.url)
        \/ StartsWith(ToLowerCase(util.contentType), <<"i", "m", "a", "g", "e", "/">>)
        \/ StartsWith(ToLowerCase(util.contentType), <<"f", "o", "n", "t", "/">>)
        \/ ToLowerCase(util.contentType) = <<"t", "e", "x", "t", "/", "c", "s", "s">> )

\* C20 as amended: isNonCriticalResource is true exactly when the url
\* contains, in lower case, a substring of the table, or the content type
\* contains, in lower case, image/, font/ or text/css anywhere.
C20_NonCriticalBySubstringOfContentType ==
  util.op = "isNonCriticalResource" =>
    util.ret = (UrlIsNonCritical(util.url) \/ ContentTypeIsNonCritical(util.contentType))

\* a request for a page of the site whose content type names text/css with
\* a charset, and so neither equals text/css nor is an image or a font
C20_Witness ==
  /\ util.op = "isNonCriticalResource"
  /\ util.url = PageUrl.chars /\ util.contentType = CssCharsetContentType
  /\ util.ret

----------------------------------------------------------------------------
(* C21 - C30 *)

RootCauseTypes ==
  {ERROR_TYPES.CHALLENGE_PAGE, ERROR_TYPES.RATE_LIMITED, ERROR_TYPES.BLOCKED}

MediumTypes == {ERROR_TYPES.NETWORK_ERROR, ERROR_TYPES.SLOW_LOAD}

\* C21: every result classifyError returns has one of the six types
\* CHALLENGE_PAGE, RATE_LIMITED, BLOCKED, NETWORK_ERROR, SLOW_LOAD and
\* UNKNOWN_TIMEOUT (never VALIDATION_ERROR or EXTRACTION_ERROR); isRootCause
\* is true exactly for the first three; confidence is high for exactly those
\* three, medium for NETWORK_ERROR and SLOW_LOAD, low for UNKNOWN_TIMEOUT.
C21_TypeDecidesRootCauseAndConfidence ==
  result.outcome = "return" =>
    /\ result.type \in RootCauseTypes \cup MediumTypes \cup {ERROR_TYPES.UNKNOWN_TIMEOUT}
    /\ result.type \notin {ERROR_TYPES.VALIDATION_ERROR, ERROR_TYPES.EXTRACTION_ERROR}
    /\ result.isRootCause = (result.type \in RootCauseTypes)
    /\ result.confidence =
         ( IF result.type \in RootCauseTypes THEN "high"
           ELSE IF result.type \in MediumTypes THEN "medium"
           ELSE "low" )

\* a network error that is to be logged, next to a status of the blocking
\* table: medium and not a root cause
C21_Witness ==
  /\ result.outcome = "return"
  /\ result.type = ERROR_TYPES.NETWORK_ERROR /\ result.shouldLog
  /\ bundle.statusCode = 503
  /\ result.confidence = "medium" /\ ~result.isRootCause

\* C26: the branch "timeout with a challenge also detected" is never taken:
\* in every step that returns UNKNOWN_TIMEOUT the result is the one of the
\* final return, with shouldLog false also when a requestId is given and
\* its key is not yet in the map, and the debounce map is left as it was.
C26_UnknownTimeoutNeverAsksTheDebouncer ==
  [][ ( /\ Len(log') = Len(log) + 1
        /\ result'.outcome = "return"
        /\ result'.type = ERROR_TYPES.UNKNOWN_TIMEOUT ) =>
      /\ ~result'.shouldLog
      /\ ~result'.signals.isTimeout
      /\ result' = FallbackResult(result'.signals)
      /\ suggestionDebounce' = suggestionDebounce ]_vars

\* a first call with a requestId whose message says "Timeout" with a
\* capital letter: no timeout is recognised, the result is the fallback
\* and nothing is stored
C26_Witness ==
  /\ Len(log) = 1 /\ bundle.requestId # NoRequestId
  /\ bundle.errorMessage = CapitalTimeoutMessage
  /\ result.type = ERROR_TYPES.UNKNOWN_TIMEOUT
  /\ ~result.shouldLog
  /\ suggestionDebounce = << >>

\* C29: signals.hasBlockingStatus is true exactly when the status code is
\* 403, 429, 451 or 503, and the flag selects no rule: a bundle with status
\* 503, no indicator in the body, no critical network error left and no
\* timeout gets the fallback (UNKNOWN_TIMEOUT, low, shouldLog false).
C29_BlockingStatusFlagSelectsNoRule ==
  result.outcome = "return" =>
    /\ result.signals.hasBlockingStatus = (bundle.statusCode \in {403, 429, 451, 503})
    /\ ( /\ DocumentedShape(bundle)
         /\ bundle.statusCode = 503
         /\ ~BodyHasChallenge(bundle)
         /\ NoCriticalEntryRemains(bundle)
         /\ ~TimedOut(bundle) ) =>
         /\ Is(result, ERROR_TYPES.UNKNOWN_TIMEOUT, "low", "enable_debug_mode", FALSE)
         /\ ~result.shouldLog

\* status 503 with a requestId and nothing else: the flag is set and the
\* result is the fallback
C29_Witness ==
  /\ result.outcome = "return" /\ bundle.statusCode = 503
  /\ bundle.requestId # NoRequestId
  /\ result.signals.hasBlockingStatus
  /\ result.type = ERROR_TYPES.UNKNOWN_TIMEOUT /\ ~result.shouldLog

\* the bundle without its console errors and page errors
WithoutConsoleAndPageErrors(b) == [b EXCEPT !.consoleErrors = << >>, !.pageErrors = << >>]

\* the part of a result that decides what the caller does
Decision(r) ==
  [ outcome |-> r.outcome, type |-> r.type, confidence |-> r.confidence,
    suggestedAction |-> r.suggestedAction, isRootCause |-> r.isRootCause,
    shouldLog |-> r.shouldLog, backoffHint |-> r.backoffHint ]

\* C30: consoleErrors and pageErrors do not influence the decision: every
\* call gives the type, confidence, suggestedAction, isRootCause and
\* shouldLog, and leaves the map, that the same bundle without console and
\* page errors gives on the same debounce map at the same time - so two
\* bundles that differ only in them are decided alike; of the signals only
\* hasConsoleErrors and hasPageErrors differ.
C30_ConsoleAndPageErrorsDoNotDecide ==
  [][ Len(log') = Len(log) + 1 =>
      LET out == classifyError(WithoutConsoleAndPageErrors(bundle'),
                               suggestionDebounce, now, rnd')
      IN  /\ Decision(out.result) = Decision(result')
          /\ out.map = suggestionDebounce'
          /\ result'.outcome = "return" =>
               /\ out.result.signals =
                    [result'.signals EXCEPT !.hasConsoleErrors = FALSE,
                                            !.hasPageErrors = FALSE]
               /\ result'.signals.hasConsoleErrors = (Len(bundle'.consoleErrors) > 0)
               /\ result'.signals.hasPageErrors = (Len(bundle'.pageErrors) > 0) ]_vars

\* a call with page errors and none of the signals of a rule: the fallback,
\* with hasPageErrors set
C30_Witness ==
  /\ result.outcome = "return"
  /\ Len(bundle.pageErrors) > 0
  /\ result.signals.hasPageErrors /\ ~result.signals.hasConsoleErrors
  /\ result.type = ERROR_TYPES.UNKNOWN_TIMEOUT

\* no call between i and j, on the key of i, returned shouldLog true
NoneLoggedBetween(i, j) ==
  \A k \in (i + 1)..(j - 1) : ~(Asked(k) /\ SameKey(i, k) /\ log[k].shouldLog)

\* C27: with a requestId, once a classification returned shouldLog true at
\* time t, the next classification for the same requestId and the same
\* suggestedAction, at time t', returns shouldLog true exactly when t' - t
\* exceeds the cooldown: 10000 ms for the suggestion of NETWORK_ERROR
\* (retry_with_delay), 5000 ms for the suggestion of every other type.
C27_CooldownIsTenSecondsForRetryFiveOtherwise ==
  \A i \in 1..Len(log) : \A j \in (i + 1)..Len(log) :
    ( /\ Asked(i) /\ Asked(j) /\ SameKey(i, j)
      /\ log[i].shouldLog /\ NoneLoggedBetween(i, j) ) =>
      /\ (log[j].suggestedAction = "retry_with_delay")
           = (log[j].type = ERROR_TYPES.NETWORK_ERROR)
      /\ log[j].shouldLog =
           ( log[j].at - log[i].at >
               IF log[j].type = ERROR_TYPES.NETWORK_ERROR THEN 10000 ELSE 5000 )

\* a network error logged, asked again 10000 ms later and suppressed - when
\* any other suggestion would have been logged - and logged 15000 ms later
C27_Witness ==
  /\ Len(log) = 3
  /\ \A i \in 1..3 : Asked(i) /\ SameKey(i, 1) /\ log[i].type = ERROR_TYPES.NETWORK_ERROR
  /\ log[1].shouldLog
  /\ log[2].at - log[1].at = 10000 /\ ~log[2].shouldLog
  /\ log[3].at - log[1].at = 15000 /\ log[3].shouldLog

\* the key of the call just made
OwnKey == DebounceKey(bundle.requestId, result.suggestedAction)

\* C28: the key set of the debounce map never shrinks; a call changes at
\* most the entry of its own key (requestId, suggestedAction), and only
\* when it returns shouldLog true; every other entry keeps its value; a
\* call without requestId, and every step that is not a call, leaves the
\* whole map as it was.
C28_OnlyTheOwnKeyOfALoggedCallChanges ==
  [][ /\ DOMAIN suggestionDebounce \subseteq DOMAIN suggestionDebounce'
      /\ \A key \in DOMAIN suggestionDebounce' :
           ( key \notin DOMAIN suggestionDebounce
             \/ suggestionDebounce'[key] # suggestionDebounce[key] ) =>
             /\ Len(log') = Len(log) + 1
             /\ bundle'.requestId # NoRequestId
             /\ result'.outcome = "return" /\ result'.shouldLog
             /\ key = DebounceKey(bundle'.requestId, result'.suggestedAction) ]_vars

\* the map holds the keys of two requests, and the last call, logged, has
\* moved the time of its own key while the other key kept the time of the
\* call that stored it
C28_Witness ==
  /\ Len(log) = 3
  /\ Asked(1) /\ Asked(2) /\ Asked(3)
  /\ SameKey(1, 3) /\ ~SameKey(1, 2)
  /\ log[1].shouldLog /\ log[2].shouldLog /\ log[3].shouldLog
  /\ log[3].at > log[2].at
  /\ suggestionDebounce[OwnKey] = log[3].at
  /\ suggestionDebounce[DebounceKey(log[2].requestId, log[2].suggestedAction)] = log[2].at

\* C22: the record mark(stage) returns has elapsed equal to its own
\* timestamp minus the time the timeline was created; getElapsed returns
\* the time of the call minus the time of creation; and, the clock never
\* going back, the elapsed readings of successive mark/getElapsed calls
\* never decrease.
C22_ElapsedIsTimestampSinceCreation ==
  /\ util.op = "mark" =>
       util.ret.elapsed = util.ret.timestamp - util.timeline.start
  /\ util.op = "getElapsed" => util.ret = now - util.timeline.start
  /\ TimelineMade =>
       \A i \in 1..Len(util.readings) : \A j \in i..Len(util.readings) :
         util.readings[i] <= util.readings[j]

\* the rate profile in effect: the one the input names, 'normal' when it
\* names none
ProfileInEffect(input) ==
  IF Defined(input, "rateProfile") THEN input.rateProfile ELSE "normal"

\* C23: for every input whose rate profile in effect is slow, normal or
\* fast, the maxConcurrency and requestDelayMs getCrawlerConfig returns are
\* those of that profile - also when the input gives a maxConcurrency or a
\* requestDelayMs of its own.
C23_RateProfileDecidesConcurrencyAndDelay ==
  ( /\ util.op \in {"getCrawlerConfig", "requestDelay"}
    /\ ProfileInEffect(util.input) \in DOMAIN RATE_PROFILES ) =>
    LET profile == RATE_PROFILES[ProfileInEffect(util.input)]
    IN  /\ Defined(util.ret, "maxConcurrency")
        /\ Defined(util.ret, "requestDelayMs")
        /\ util.ret.maxConcurrency = profile.maxConcurrency
        /\ util.ret.requestDelayMs = profile.requestDelayMs

\* C24: extractMarsha returns the code in upper case for every url of the
\* long form .../hotels/[travel/]<code>-<slug>/... and for every short-code
\* url scheme://host/<CODE> (ADDLC, ABC, DEADHOTEL), and the empty string
\* for empty or null input and for urls with no code; extractSlug returns
\* the empty string for every short-code url.
C24_MarshaCodeOfLongAndShortUrls ==
  /\ util.op = "extractMarsha" =>
       util.ret = ( IF util.input.kind \in {"long", "short"}
                      THEN ToUpperCase(util.input.code)
                      ELSE << >> )
  /\ (util.op = "extractSlug" /\ util.input.kind = "short") => util.ret = << >>

\* the hotel just processed is dead: navigation failed, or the response
\* has a status of 400 or more
IsDead(goto) == goto.kind = "throws" \/ (goto.kind = "response" /\ goto.status >= 400)

\* C25: a scraped hotel whose response status is 400 or more, or whose
\* navigation fails, is marked is_live false, and the dataset gets a
\* dead-hotel error object with its marsha_code, url, status and message;
\* when the navigation fails the code is the one of the link; every hotel
\* pushed as a successful hotel has is_live true.
C25_DeadHotelsAreReportedNotListed ==
  util.op = "pushData" =>
    /\ IsDead(util.goto) =>
         /\ ~util.hotelData.is_live
         /\ util.goto.kind = "throws" =>
              util.hotelData.marsha_code = extractMarsha(util.link.url)
         /\ \E i \in 1..Len(util.dataset) :
              /\ util.dataset[i].kind = "error"
              /\ util.dataset[i].item =
                   handleDeadHotel(util.hotelData.url, util.hotelData.marsha_code,
                                   util.goto.status)
    /\ \A i \in 1..Len(util.dataset) :
         util.dataset[i].kind = "hotel" => util.dataset[i].item.is_live

====
